---- MODULE Spec2Model ----
(***************************************************************************)
(* Model of bounoable/ical: the lexer (lex), the parser (parse) and the    *)
(* encoder (encode).  Text is a sequence of runes; a rune is a one-rune    *)
(* string.  A time.Time is a record [day, sec, nsec, loc]: day counts the   *)
(* days                                                                    *)
(* since 0001-01-01 (the zero time.Time is day 0, second 0, UTC).          *)
(***************************************************************************)
EXTENDS Integers, Sequences, FiniteSets, TLC

(* ---------------------------------------------------------------------- *)
(* Runes                                                                   *)
(* ---------------------------------------------------------------------- *)
cr == "\r"
lf == "\n"
TAB == "\t"
SP == " "
FF == "\f"
BEL == "<BEL>"
NBSP == "<U+00A0>"
EACUTE == "<U+00E9>"
DQUOTE == "\""
eof == "<eof>"

Letters ==
  {"A","B","C","D","E","F","G","H","I","J","K","L","M","N","O","P","Q","R",
   "S","T","U","V","W","X","Y","Z","a","b","x","y", EACUTE}

Digits == {"0","1","2","3","4","5","6","7","8","9"}

\* unicode.IsControl on the runes of the model
IsControl(r) == r \in {cr, lf, TAB, FF, BEL}

\* unicode.IsSpace on the runes of the model
IsSpace(r) == r \in {SP, TAB, lf, cr, FF, NBSP}

\* length of the UTF-8 encoding of a rune
RuneLen(r) == IF r \in {NBSP, EACUTE} THEN 2 ELSE 1

ByteLen(s) == Len(s) + Cardinality({i \in 1..Len(s) : RuneLen(s[i]) = 2})

isNameChar(r) == r \in Letters \cup Digits \cup {"-"}

isQSafeChar(r) == ~IsControl(r) /\ r # DQUOTE

isSafeChar(r) == isQSafeChar(r) /\ r # ";" /\ r # ":" /\ r # ","

isValueChar(r) == r = TAB \/ (~IsControl(r) /\ r # eof)

beginVCalender == <<"B","E","G","I","N",":","V","C","A","L","E","N","D","A","R">>
endVCalendar == <<"E","N","D",":","V","C","A","L","E","N","D","A","R">>
beginVEvent == <<"B","E","G","I","N",":","V","E","V","E","N","T">>
endVEvent == <<"E","N","D",":","V","E","V","E","N","T">>
beginVAlarm == <<"B","E","G","I","N",":","V","A","L","A","R","M">>
endVAlarm == <<"E","N","D",":","V","A","L","A","R","M">>

\* strings.HasPrefix on rune sequences
HasPrefix(s, prefix) ==
  Len(prefix) <= Len(s) /\ SubSeq(s, 1, Len(prefix)) = prefix

DropN(s, n) == SubSeq(s, n + 1, Len(s))

Last(s) == s[Len(s)]

Range(s) == {s[i] : i \in 1..Len(s)}

(* ---------------------------------------------------------------------- *)
(* lex: items and the lexer struct                                         *)
(* A lexer value is [input, bufferedInput, bufPos, width, consumed,        *)
(* strictLineBreaks, out]: input is what the io.RuneReader has not         *)
(* returned yet, bufPos counts runes of bufferedInput, consumed counts     *)
(* bytes, out is the sequence of items the running state function has      *)
(* sent to l.items.                                                        *)
(* ---------------------------------------------------------------------- *)
Item(t, v) == [Type |-> t, Value |-> v, Pos |-> 0]

\* fmt.Sprintf of an error message: the format, the runes it prints, the position
ErrItem(msg, runes, pos) == [Type |-> "Error", Value |-> <<msg>> \o runes, Pos |-> pos]

CtxErrItem == [Type |-> "Error", Value |-> <<"context canceled">>, Pos |-> 0]

NewLexer(in, strictLB) ==
  [input |-> in, bufferedInput |-> <<>>, bufPos |-> 0, width |-> 0,
   consumed |-> 0, strictLineBreaks |-> strictLB, out |-> <<>>]

pos(l) == l.consumed + ByteLen(SubSeq(l.bufferedInput, 1, l.bufPos))

ignore(l) ==
  [l EXCEPT !.bufferedInput = DropN(l.bufferedInput, l.bufPos),
            !.consumed = l.consumed + ByteLen(SubSeq(l.bufferedInput, 1, l.bufPos)),
            !.bufPos = 0]

emit(l, t) ==
  ignore([l EXCEPT !.out = Append(l.out, Item(t, SubSeq(l.bufferedInput, 1, l.bufPos)))])

emitIf(l, cond, t) == IF cond THEN emit(l, t) ELSE l

emitAdvanced(l, t) == emitIf(l, l.bufPos > 0, t)

emitEOF(l) == emit(ignore(l), "EOF")

advance(l, n) == [l EXCEPT !.bufPos = l.bufPos + n]

backup(l) == [l EXCEPT !.bufPos = l.bufPos - l.width]

\* readRune with the bare-LF fold forgotten: only CRLF folds are deleted
readRune_CRLFOnly(l) ==
  IF l.input = <<>> THEN [l |-> l, err |-> "EOF"]
  ELSE
    LET r == Head(l.input)
        in1 == Tail(l.input)
    IN IF r # cr /\ r # lf
       THEN [l |-> [l EXCEPT !.input = in1, !.bufferedInput = Append(@, r)], err |-> "nil"]
       ELSE IF in1 = <<>> THEN [l |-> [l EXCEPT !.input = in1], err |-> "EOF"]
       ELSE
         LET r2 == Head(in1)
             in2 == Tail(in1)
         IN IF FALSE
            THEN [l |-> [l EXCEPT !.input = in2], err |-> "nil"]
            ELSE IF ~(r = cr /\ r2 = lf)
            THEN [l |-> [l EXCEPT !.input = in2, !.bufferedInput = @ \o <<r, r2>>],
                  err |-> "nil"]
            ELSE IF in2 = <<>> THEN [l |-> [l EXCEPT !.input = in2], err |-> "EOF"]
            ELSE
              LET r3 == Head(in2)
                  in3 == Tail(in2)
              IN IF ~IsSpace(r3)
                 THEN [l |-> [l EXCEPT !.input = in3,
                                       !.bufferedInput = @ \o <<r, r2, r3>>],
                       err |-> "nil"]
                 ELSE [l |-> [l EXCEPT !.input = in3], err |-> "nil"]

\* readRune returns the lexer and the error ("nil" or "EOF")
readRune(l) ==
  IF l.input = <<>> THEN [l |-> l, err |-> "EOF"]
  ELSE
    LET r == Head(l.input)
        in1 == Tail(l.input)
    IN IF r # cr /\ r # lf
       THEN [l |-> [l EXCEPT !.input = in1, !.bufferedInput = Append(@, r)], err |-> "nil"]
       ELSE IF in1 = <<>> THEN [l |-> [l EXCEPT !.input = in1], err |-> "EOF"]
       ELSE
         LET r2 == Head(in1)
             in2 == Tail(in1)
         IN IF r = lf /\ IsSpace(r2)
            THEN [l |-> [l EXCEPT !.input = in2], err |-> "nil"]
            ELSE IF ~(r = cr /\ r2 = lf)
            THEN [l |-> [l EXCEPT !.input = in2, !.bufferedInput = @ \o <<r, r2>>],
                  err |-> "nil"]
            ELSE IF in2 = <<>> THEN [l |-> [l EXCEPT !.input = in2], err |-> "EOF"]
            ELSE
              LET r3 == Head(in2)
                  in3 == Tail(in2)
              IN IF ~IsSpace(r3)
                 THEN [l |-> [l EXCEPT !.input = in3,
                                       !.bufferedInput = @ \o <<r, r2, r3>>],
                       err |-> "nil"]
                 ELSE [l |-> [l EXCEPT !.input = in3], err |-> "nil"]

\* the read loop of lexer.next: read until a rune is buffered or the input ends
RECURSIVE fillNext(_)
fillNext(l) ==
  LET read(rr) == IF rr.err = "nil" THEN fillNext(rr.l) ELSE rr.l
  IN IF l.bufPos < Len(l.bufferedInput) THEN l ELSE read(readRune(l))

\* lexer.next returns the lexer and the rune
lexer_next(l) ==
  LET decode(f) ==
        IF f.bufPos >= Len(f.bufferedInput)
        THEN [l |-> [f EXCEPT !.width = 0], r |-> eof]
        ELSE [l |-> [f EXCEPT !.width = 1, !.bufPos = f.bufPos + 1],
              r |-> f.bufferedInput[f.bufPos + 1]]
  IN decode(fillNext(l))

\* the read loop of lexer.hasPrefix
RECURSIVE fillPrefix(_, _)
fillPrefix(l, prefix) ==
  LET read(rr) == IF rr.err = "nil" THEN fillPrefix(rr.l, prefix) ELSE rr.l
  IN IF ByteLen(prefix) <= ByteLen(DropN(l.bufferedInput, l.bufPos)) THEN l
     ELSE read(readRune(l))

\* lexer.hasPrefix returns the lexer and the answer
hasPrefix(l, prefix) ==
  LET answer(f) == [l |-> f, ok |-> HasPrefix(DropN(f.bufferedInput, f.bufPos), prefix)]
  IN answer(fillPrefix(l, prefix))

errorf(l, msg, runes, p) == [l EXCEPT !.out = Append(l.out, ErrItem(msg, runes, p))]

unexpected(l, r, valid) ==
  errorf(l, "expected character at pos %d to be one of %s; got %s", valid \o <<r>>, pos(l))

unexpectedEOF(l) == errorf(l, "unexpected EOF at pos %d", <<>>, pos(l))

(* ---------------------------------------------------------------------- *)
(* lex: the state functions.  Each returns the lexer and the name of the   *)
(* next state function ("nil" ends the state machine).                     *)
(* ---------------------------------------------------------------------- *)
runeClass(class, r) ==
  CASE class = "name" -> isNameChar(r)
    [] class = "value" -> isValueChar(r)
    [] class = "safe" -> isSafeChar(r)

\* the scanning loop of a state function: call next until it returns eof or
\* a rune outside the class
RECURSIVE scan(_, _)
scan(l, class) ==
  LET loop(n) == IF n.r # eof /\ runeClass(class, n.r) THEN scan(n.l, class) ELSE n
  IN loop(lexer_next(l))

markers ==
  << <<beginVCalender, "CalendarBegin">>, <<endVCalendar, "CalendarEnd">>,
     <<beginVEvent, "EventBegin">>, <<endVEvent, "EventEnd">>,
     <<beginVAlarm, "AlarmBegin">>, <<endVAlarm, "AlarmEnd">> >>

RECURSIVE lexMarker(_, _)
lexMarker(l, i) ==
  LET match(h) ==
        IF h.ok
        THEN [l |-> emit(advance(h.l, Len(markers[i][1])), markers[i][2]),
              nxt |-> "lexNewLine"]
        ELSE lexMarker(h.l, i + 1)
  IN IF i > Len(markers) THEN [l |-> l, nxt |-> "lexName"]
     ELSE match(hasPrefix(l, markers[i][1]))

lexContentLine(l) == lexMarker(l, 1)

lexNewLine(l) ==
  LET third(n3) ==
        IF n3.r = eof THEN [l |-> emitEOF(n3.l), nxt |-> "nil"]
        ELSE [l |-> ignore(backup(n3.l)), nxt |-> "lexContentLine"]
      second(n2) ==
        IF n2.r # lf
        THEN [l |-> errorf(n2.l, "expected end of line at pos %d; got %s", <<n2.r>>,
                           pos(n2.l)),
              nxt |-> "nil"]
        ELSE third(lexer_next(n2.l))
      first(n1) ==
        IF n1.r = eof THEN [l |-> emitEOF(n1.l), nxt |-> "nil"]
        ELSE IF n1.r = cr THEN second(lexer_next(n1.l))
        ELSE IF n1.r = lf /\ l.strictLineBreaks
        THEN [l |-> errorf(n1.l, "missing carriage return (CR) at pos %d", <<>>, pos(n1.l)),
              nxt |-> "nil"]
        ELSE second(n1)
  IN first(lexer_next(l))

lexName(l) ==
  LET delim(n) ==
        CASE n.r = ":" -> [l |-> ignore(n.l), nxt |-> "lexValue"]
          [] n.r = ";" -> [l |-> ignore(n.l), nxt |-> "lexParamName"]
          [] OTHER -> [l |-> unexpected(n.l, n.r, <<":", ";">>), nxt |-> "nil"]
      name(s) ==
        IF s.r = eof THEN [l |-> unexpectedEOF(s.l), nxt |-> "nil"]
        ELSE delim(lexer_next(emitAdvanced(backup(s.l), "Name")))
  IN name(scan(l, "name"))

\* lexValue that sends a Value and returns itself without reading a rune
lexValue_Spin(l) == [l |-> emit(l, "Value"), nxt |-> "lexValue"]

lexValue(l) ==
  LET value(s) ==
        IF s.r = eof THEN [l |-> emit(s.l, "Value"), nxt |-> "nil"]
        ELSE [l |-> emitAdvanced(backup(s.l), "Value"), nxt |-> "lexNewLine"]
      bareLF(h2) ==
        IF h2.ok THEN [l |-> emit(h2.l, "Value"), nxt |-> "lexNewLine"]
        ELSE value(scan(h2.l, "value"))
      crlf(h1) ==
        IF h1.ok THEN [l |-> emit(h1.l, "Value"), nxt |-> "lexNewLine"]
        ELSE bareLF(hasPrefix(h1.l, <<lf>>))
  IN crlf(hasPrefix(l, <<cr, lf>>))

lexParamName(l) ==
  LET delim(n) ==
        CASE n.r = "=" -> [l |-> ignore(n.l), nxt |-> "lexParamValue"]
          [] n.r = ":" -> [l |-> ignore(n.l), nxt |-> "lexValue"]
          [] OTHER -> [l |-> unexpected(n.l, n.r, <<"=", ":">>), nxt |-> "nil"]
      name(s) ==
        IF s.r = eof THEN [l |-> unexpectedEOF(s.l), nxt |-> "nil"]
        ELSE delim(lexer_next(emitAdvanced(backup(s.l), "ParamName")))
  IN name(scan(l, "name"))

lexParamValue(l) ==
  LET delim(n) ==
        CASE n.r = ":" -> [l |-> ignore(n.l), nxt |-> "lexValue"]
          [] n.r = ";" -> [l |-> ignore(n.l), nxt |-> "lexParamName"]
          [] n.r = "," -> [l |-> ignore(n.l), nxt |-> "lexParamValue"]
          [] OTHER -> [l |-> unexpected(n.l, n.r, <<":">>), nxt |-> "nil"]
      value(s) ==
        IF s.r = eof
        THEN [l |-> unexpectedEOF(emitAdvanced(s.l, "ParamValue")), nxt |-> "nil"]
        ELSE delim(lexer_next(emitAdvanced(backup(s.l), "ParamValue")))
  IN value(scan(l, "safe"))

\* the call state(&l) of the Reader loop
stateFunc(name, l) ==
  CASE name = "lexContentLine" -> lexContentLine(l)
    [] name = "lexNewLine" -> lexNewLine(l)
    [] name = "lexName" -> lexName(l)
    [] name = "lexValue" -> lexValue(l)
    [] name = "lexParamName" -> lexParamName(l)
    [] name = "lexParamValue" -> lexParamValue(l)

\* the items a consumer that receives every item gets from
\* Reader(strings.NewReader(in)) with a context that is never cancelled
RECURSIVE runLexer(_, _)
runLexer(l, name) ==
  LET loop(s) == runLexer(s.l, s.nxt)
  IN IF name = "nil" THEN l.out ELSE loop(stateFunc(name, l))

Reader(in, strictLB) == runLexer(NewLexer(in, strictLB), "lexContentLine")

(* ---------------------------------------------------------------------- *)
(* package time, as far as the parser uses it.  A zone keeps one offset,   *)
(* so a time is its wall clock and its zone: [day, sec, nsec, loc].  A     *)
(* time.Duration is the int64 count of nanoseconds written as days,        *)
(* seconds and nanoseconds: [d, s, ns] with 0 <= s < 86400 and             *)
(* 0 <= ns < 10^9.                                                         *)
(* ---------------------------------------------------------------------- *)
DigitRunes == <<"0","1","2","3","4","5","6","7","8","9">>

DigitVal(r) == (CHOOSE i \in 1..10 : DigitRunes[i] = r) - 1

AllDigits(s) == \A i \in 1..Len(s) : s[i] \in Digits

\* strconv.Atoi on a non-empty sequence of digits
RECURSIVE Atoi(_)
Atoi(s) ==
  IF s = <<>> THEN 0
  ELSE Atoi(SubSeq(s, 1, Len(s) - 1)) * 10 + DigitVal(s[Len(s)])

isLeap(year) == year % 4 = 0 /\ (year % 100 # 0 \/ year % 400 = 0)

daysBefore == <<0, 31, 59, 90, 120, 151, 181, 212, 243, 273, 304, 334, 365>>

daysIn(m, year) ==
  IF m = 2 /\ isLeap(year) THEN 29 ELSE daysBefore[m + 1] - daysBefore[m]

\* days from 0001-01-01 to the first day of the year
daysSinceEpoch(year) ==
  365 * (year - 1) + ((year - 1) \div 4) - ((year - 1) \div 100) + ((year - 1) \div 400)

ZeroTime == [day |-> 0, sec |-> 0, nsec |-> 0, loc |-> "UTC"]

\* time.Date(year, month, day, hour, min, sec, 0, loc); a day or a second
\* outside its range is carried over
time_Date(year, month, dd, hour, min, sec, loc) ==
  LET secs == hour * 3600 + min * 60 + sec
      days == daysSinceEpoch(year) + daysBefore[month]
                + (IF month > 2 /\ isLeap(year) THEN 1 ELSE 0) + (dd - 1)
  IN [day |-> days + (secs \div 86400), sec |-> secs % 86400, nsec |-> 0, loc |-> loc]

Year(t) ==
  CHOOSE y \in ((t.day \div 366) - 1)..((t.day \div 365) + 2) :
    daysSinceEpoch(y) <= t.day /\ t.day < daysSinceEpoch(y + 1)

Month(t) ==
  LET yday == t.day - daysSinceEpoch(Year(t))
      leap == IF isLeap(Year(t)) THEN 1 ELSE 0
      before(m) == daysBefore[m] + (IF m > 2 THEN leap ELSE 0)
  IN CHOOSE m \in 1..12 : before(m) <= yday /\ yday < before(m + 1)

Day(t) ==
  LET leap == IF Month(t) > 2 /\ isLeap(Year(t)) THEN 1 ELSE 0
  IN t.day - daysSinceEpoch(Year(t)) - daysBefore[Month(t)] - leap + 1

\* days, seconds and nanoseconds with the carries done
Duration(d, s, ns) ==
  LET secs == s + (ns \div 1000000000)
  IN [d |-> d + (secs \div 86400), s |-> secs % 86400, ns |-> ns % 1000000000]

\* math.MaxInt64, math.MinInt64 and 2^64 nanoseconds
MaxInt64 == [d |-> 106751, s |-> 85636, ns |-> 854775807]
MinInt64 == [d |-> -106752, s |-> 763, ns |-> 145224192]
TwoTo64 == [d |-> 213503, s |-> 84873, ns |-> 709551616]

DurationLess(a, b) ==
  \/ a.d < b.d
  \/ a.d = b.d /\ a.s < b.s
  \/ a.d = b.d /\ a.s = b.s /\ a.ns < b.ns

\* the int64 that is left of a result: arithmetic on time.Duration wraps
\* around modulo 2^64
RECURSIVE Int64(_)
Int64(x) ==
  IF DurationLess(MaxInt64, x)
  THEN Int64(Duration(x.d - TwoTo64.d, x.s - TwoTo64.s, x.ns - TwoTo64.ns))
  ELSE IF DurationLess(x, MinInt64)
  THEN Int64(Duration(x.d + TwoTo64.d, x.s + TwoTo64.s, x.ns + TwoTo64.ns))
  ELSE x

\* a + b on time.Duration
DurationAdd(a, b) == Int64(Duration(a.d + b.d, a.s + b.s, a.ns + b.ns))

\* -a on time.Duration
DurationNeg(a) == Int64(Duration(-a.d, -a.s, -a.ns))

Second == [d |-> 0, s |-> 1, ns |-> 0]
Minute == [d |-> 0, s |-> 60, ns |-> 0]
Hour == [d |-> 0, s |-> 3600, ns |-> 0]

\* one * time.Duration(num) for a unit of whole seconds that divides a day
\* or is a number of days, and num >= 0
DurationTimes(one, num) ==
  LET secs == one.d * 86400 + one.s
  IN IF secs % 86400 = 0
     THEN Int64(Duration((secs \div 86400) * num, 0, 0))
     ELSE Int64(Duration(num \div (86400 \div secs), (num % (86400 \div secs)) * secs, 0))

day == DurationTimes(Hour, 24)
week == DurationTimes(day, 7)

\* t.Add(d)
Add(t, d) ==
  LET secs == t.sec + d.s + ((t.nsec + d.ns) \div 1000000000)
  IN [t EXCEPT !.day = t.day + d.d + (secs \div 86400),
               !.sec = secs % 86400,
               !.nsec = (t.nsec + d.ns) % 1000000000]

\* t.AddDate(0, 0, days)
AddDate(t, days) ==
  [time_Date(Year(t), Month(t), Day(t) + days, 0, 0, t.sec, t.loc) EXCEPT !.nsec = t.nsec]

(* ---------------------------------------------------------------------- *)
(* parse: properties and time values.  A Property is [Name, Params,       *)
(* Value]; Parameters is a function from parameter names to value lists.  *)
(* ---------------------------------------------------------------------- *)
VALUE == <<"V","A","L","U","E">>
DATE == <<"D","A","T","E">>
DATE_TIME == <<"D","A","T","E","-","T","I","M","E">>
TZID == <<"T","Z","I","D">>
DTSTART == <<"D","T","S","T","A","R","T">>
DTEND == <<"D","T","E","N","D">>
DTSTAMP == <<"D","T","S","T","A","M","P">>
DURATION == <<"D","U","R","A","T","I","O","N">>
UID == <<"U","I","D">>
SUMMARY == <<"S","U","M","M","A","R","Y">>
DESCRIPTION == <<"D","E","S","C","R","I","P","T","I","O","N">>

Property(name, params, value) == [Name |-> name, Params |-> params, Value |-> value]

\* params[name], nil for a missing name
ParamValues(params, name) == IF name \in DOMAIN params THEN params[name] ELSE <<>>

Contains(params, name, val) ==
  name \in DOMAIN params /\ \E i \in 1..Len(params[name]) : params[name][i] = val

layoutDate == <<"2","0","0","6","0","1","0","2">>
layoutDateTimeUTC == <<"2","0","0","6","0","1","0","2","T","1","5","0","4","0","5","Z">>
layoutDateTimeLocal == <<"2","0","0","6","0","1","0","2","T","1","5","0","4","0","5">>

\* time.Time.Format("150405") of a time of day
Format150405(hour, minute, second) ==
  <<DigitRunes[(hour \div 10) + 1], DigitRunes[(hour % 10) + 1],
    DigitRunes[(minute \div 10) + 1], DigitRunes[(minute % 10) + 1],
    DigitRunes[(second \div 10) + 1], DigitRunes[(second % 10) + 1]>>

\* normalizeTimeValue taking two digits for every hour below 60
normalizeTimeValue_Hour60(val, digits) ==
  LET two(off) == Atoi(SubSeq(val, off + 1, off + 2))
      one(off) == Atoi(SubSeq(val, off + 1, off + 1))
      found(fc) == fc >= digits - 3
      fmt(hour, minute, second) == Format150405(hour, minute, second)
      seconds(hour, minute, off, fc) ==
        IF ~found(fc) /\ two(off) < 60 THEN fmt(hour, minute, two(off))
        ELSE fmt(hour, minute, one(off))
      minutes(hour, off, fc) ==
        IF ~found(fc) /\ two(off) < 60 THEN seconds(hour, two(off), off + 2, fc + 1)
        ELSE seconds(hour, one(off), off + 1, fc)
  IN IF two(0) < 60 THEN minutes(two(0), 2, 1) ELSE minutes(one(0), 1, 0)

normalizeTimeValue(val, digits) ==
  LET two(off) == Atoi(SubSeq(val, off + 1, off + 2))
      one(off) == Atoi(SubSeq(val, off + 1, off + 1))
      found(fc) == fc >= digits - 3
      fmt(hour, minute, second) == Format150405(hour, minute, second)
      seconds(hour, minute, off, fc) ==
        IF ~found(fc) /\ two(off) < 60 THEN fmt(hour, minute, two(off))
        ELSE fmt(hour, minute, one(off))
      minutes(hour, off, fc) ==
        IF ~found(fc) /\ two(off) < 60 THEN seconds(hour, two(off), off + 2, fc + 1)
        ELSE seconds(hour, one(off), off + 1, fc)
  IN IF two(0) < 24 THEN minutes(two(0), 2, 1) ELSE minutes(one(0), 1, 0)

\* the match of shortTimeLayoutRE in val: the number of digits of the time of
\* day, 0 if the expression does not match
shortTimeLayoutRE(val) ==
  LET z == IF val # <<>> /\ Last(val) = "Z" THEN 1 ELSE 0
      n == Len(val) - z
      fits(k) ==
        /\ n - k - 1 >= 1
        /\ AllDigits(SubSeq(val, n - k + 1, n))
        /\ val[n - k] = "T"
        /\ val[n - k - 1] \in Digits
  IN IF \E k \in 3..5 : fits(k) THEN CHOOSE k \in 3..5 : fits(k) ELSE 0

normalizeDateTimeValue(val) ==
  LET z == IF val # <<>> /\ Last(val) = "Z" THEN 1 ELSE 0
      rewrite(k) ==
        LET n == Len(val) - z
            timeVal == SubSeq(val, n - k + 1, n)
            head == SubSeq(val, 1, n - k)
            tail == SubSeq(val, n + 1, Len(val))
        IN IF k = 3
           THEN head \o <<"0", timeVal[1], "0", timeVal[2], "0", timeVal[3]>> \o tail
           ELSE head \o normalizeTimeValue(timeVal, k) \o tail
      replace(k) == IF k = 0 THEN val ELSE rewrite(k)
  IN replace(shortTimeLayoutRE(val))

\* time.ParseInLocation for the three layouts and the empty layout, on values
\* made of digits, T and Z; returns the time and the error ("nil" or "parse")
ParseInLocation(layout, value, loc) ==
  LET num(i, j) == Atoi(SubSeq(value, i, j))
      fail == [t |-> ZeroTime, err |-> "parse"]
      dateOK ==
        /\ AllDigits(SubSeq(value, 1, 8))
        /\ num(5, 6) \in 1..12
        /\ num(7, 8) >= 1
        /\ num(7, 8) <= daysIn(num(5, 6), num(1, 4))
      clockOK ==
        /\ value[9] = "T"
        /\ AllDigits(SubSeq(value, 10, 15))
        /\ num(10, 11) < 24
        /\ num(12, 13) < 60
        /\ num(14, 15) < 60
  IN IF layout = <<>>
     THEN IF value = <<>> THEN [t |-> time_Date(0, 1, 1, 0, 0, 0, loc), err |-> "nil"]
          ELSE fail
     ELSE IF Len(value) # Len(layout) THEN fail
     ELSE IF ~dateOK THEN fail
     ELSE IF layout = layoutDate
     THEN [t |-> time_Date(num(1, 4), num(5, 6), num(7, 8), 0, 0, 0, loc), err |-> "nil"]
     ELSE IF ~clockOK THEN fail
     ELSE IF layout = layoutDateTimeUTC /\ value[16] # "Z" THEN fail
     ELSE [t |-> time_Date(num(1, 4), num(5, 6), num(7, 8),
                           num(10, 11), num(12, 13), num(14, 15), loc),
           err |-> "nil"]

\* time.LoadLocation: the name of the zone, "err" for a name the zone
\* database does not know
LoadLocation(raw) ==
  CASE raw = <<>> -> "UTC"
    [] raw = <<"U","T","C">> -> "UTC"
    [] raw = <<"L","o","c","a","l">> -> "Local"
    [] raw = <<"C","E","T">> -> "CET"
    [] OTHER -> "err"

\* parseLayout without the switch on the length of the value
parseLayout_NoFallback(prop) ==
  LET values == ParamValues(prop.Params, VALUE)
  IN IF values = <<>> THEN <<>>
     ELSE IF Last(values) = DATE_TIME THEN layoutDateTimeLocal
     ELSE layoutDate

parseLayout(prop) ==
  LET values == ParamValues(prop.Params, VALUE)
      layout ==
        IF values = <<>> THEN <<>>
        ELSE IF Last(values) = DATE_TIME THEN layoutDateTimeLocal
        ELSE layoutDate
  IN IF Len(layout) # Len(prop.Value)
     THEN CASE Len(prop.Value) = Len(layoutDate) -> layoutDate
            [] Len(prop.Value) = Len(layoutDateTimeLocal) -> layoutDateTimeLocal
            [] Len(prop.Value) = Len(layoutDateTimeUTC) -> layoutDateTimeUTC
            [] OTHER -> layout
     ELSE layout

\* the zone of the last TZID value that time.LoadLocation knows
tzidLocation_Last(prop) ==
  LET tzRaw == ParamValues(prop.Params, TZID)
      known == {i \in 1..Len(tzRaw) : LoadLocation(tzRaw[i]) # "err"}
  IN IF known = {} THEN "Local"
     ELSE LoadLocation(tzRaw[CHOOSE i \in known : \A j \in known : j <= i])

\* the zone parseTime takes from the TZID parameter
tzidLocation(prop) ==
  LET tzRaw == ParamValues(prop.Params, TZID)
      known == {i \in 1..Len(tzRaw) : LoadLocation(tzRaw[i]) # "err"}
  IN IF known = {} THEN "Local"
     ELSE LoadLocation(tzRaw[CHOOSE i \in known : \A j \in known : i <= j])

\* the layout and the zone parseTime resolves for a property
timeLayout(p, prop) ==
  LET pick(value) ==
        LET utc == value # <<>> /\ Last(value) = "Z"
            layout == IF utc THEN layoutDateTimeUTC
                      ELSE parseLayout([prop EXCEPT !.Value = value])
        IN [layout |-> IF layout = layoutDate /\ Len(value) # Len(layout)
                       THEN layoutDateTimeLocal ELSE layout,
            loc |-> IF utc THEN "UTC"
                    ELSE IF p.loc # "nil" THEN p.loc
                    ELSE tzidLocation(prop),
            value |-> value]
  IN pick(normalizeDateTimeValue(prop.Value))

parseTime(p, prop) ==
  LET parse(r) == ParseInLocation(r.layout, r.value, r.loc)
  IN parse(timeLayout(p, prop))

\* parseDTEND advancing every value, whatever its length
parseDTEND_AnyLength(p, prop) ==
  LET advanced(r) ==
        IF r.err # "nil" \/ ~p.inclusiveEnds THEN r
        ELSE [t |-> AddDate(r.t, 1), err |-> "nil"]
  IN advanced(parseTime(p, prop))

parseDTEND(p, prop) ==
  LET advanced(r) ==
        IF r.err # "nil" \/ ~p.inclusiveEnds THEN r
        ELSE [t |-> AddDate(r.t, 1), err |-> "nil"]
  IN IF Len(prop.Value) # Len(layoutDate) THEN parseTime(p, prop)
     ELSE advanced(parseTime(p, prop))

(* ---------------------------------------------------------------------- *)
(* parse: durations.  A durationParser is the value and the number of     *)
(* runes read; results are [dur, err] with err "nil" or "duration".       *)
(* ---------------------------------------------------------------------- *)
ZeroDuration == [d |-> 0, s |-> 0, ns |-> 0]

durFail == [dur |-> ZeroDuration, err |-> "duration"]

\* the digits read from pos on
RECURSIVE digitRun(_, _)
digitRun(value, at) ==
  IF at < Len(value) /\ value[at + 1] \in Digits
  THEN <<value[at + 1]>> \o digitRun(value, at + 1)
  ELSE <<>>

\* the digits of math.MaxInt64
maxIntDigits ==
  <<"9","2","2","3","3","7","2","0","3","6","8","5","4","7","7","5","8","0","7">>

\* strconv.Atoi fails with ErrRange: the digits are a number above MaxInt64
atoiRangeError(digits) ==
  LET zeros == CHOOSE n \in 0..Len(digits) :
                 /\ \A i \in 1..n : digits[i] = "0"
                 /\ (n < Len(digits) => digits[n + 1] # "0")
      num == DropN(digits, zeros)
  IN \/ Len(num) > Len(maxIntDigits)
     \/ /\ Len(num) = Len(maxIntDigits)
        /\ \E i \in 1..Len(num) :
             /\ DigitVal(num[i]) > DigitVal(maxIntDigits[i])
             /\ \A j \in 1..(i - 1) : num[j] = maxIntDigits[j]

\* durationParser.parseDigits returns the number, the new pos and the error
parseDigits(value, at) ==
  LET digits == digitRun(value, at)
  IN IF at + Len(digits) >= Len(value) \/ digits = <<>> \/ atoiRangeError(digits)
     THEN [num |-> 0, pos |-> at, err |-> "duration"]
     ELSE [num |-> Atoi(digits), pos |-> at + Len(digits), err |-> "nil"]

\* durationParser.parseTime, total being the sum of the units read so far
RECURSIVE durationParser_parseTime(_, _, _)
durationParser_parseTime(value, at, total) ==
  LET unit(d) ==
        LET r == value[d.pos + 1]
            one == CASE r = "H" -> Hour
                     [] r = "M" -> Minute
                     [] r = "S" -> Second
                     [] OTHER -> ZeroDuration
            sum == DurationAdd(total, DurationTimes(one, d.num))
        IN IF r \notin {"H", "M", "S"} THEN durFail
           ELSE IF d.pos + 1 >= Len(value)
           THEN [dur |-> sum, err |-> "nil"]
           ELSE durationParser_parseTime(value, d.pos + 1, sum)
      read(d) == IF d.err # "nil" THEN durFail ELSE unit(d)
  IN read(parseDigits(value, at))

durationParser_parse(value) ==
  LET multiplier == IF value[1] = "-" THEN -1 ELSE 1
      start == IF value[1] \in {"-", "+"} THEN 1 ELSE 0
      times(x) == IF multiplier = -1 THEN DurationNeg(x) ELSE x
      signed(r) == IF r.err # "nil" THEN durFail ELSE [r EXCEPT !.dur = times(r.dur)]
      dayTime(r, dayDur) ==
        IF r.err # "nil" THEN durFail
        ELSE [r EXCEPT !.dur = times(DurationAdd(dayDur, r.dur))]
      date(d) ==
        IF d.err # "nil" THEN durFail
        ELSE CASE value[d.pos + 1] = "W" ->
                    [dur |-> times(DurationTimes(week, d.num)), err |-> "nil"]
               [] value[d.pos + 1] = "D" ->
                    IF d.pos + 1 >= Len(value)
                    THEN [dur |-> times(DurationTimes(day, d.num)), err |-> "nil"]
                    ELSE IF value[d.pos + 2] = "T"
                    THEN dayTime(durationParser_parseTime(value, d.pos + 2, ZeroDuration),
                                 DurationTimes(day, d.num))
                    ELSE durFail
               [] OTHER -> durFail
  IN IF start >= Len(value) \/ value[start + 1] # "P" THEN durFail
     ELSE IF start + 1 >= Len(value) THEN durFail
     ELSE IF value[start + 2] = "T"
     THEN signed(durationParser_parseTime(value, start + 2, ZeroDuration))
     ELSE date(parseDigits(value, start + 1))

parseDuration(raw) ==
  IF Len(raw) = 0 THEN [dur |-> ZeroDuration, err |-> "nil"]
  ELSE durationParser_parse(raw)

(* ---------------------------------------------------------------------- *)
(* parse: events.  The parser options are p.loc ("nil" or a zone) and     *)
(* p.inclusiveEnds.  Operators that can fail return [evt, err].           *)
(* ---------------------------------------------------------------------- *)
Event ==
  [Properties |-> <<>>, UID |-> <<>>, Alarms |-> <<>>, Timestamp |-> ZeroTime,
   Start |-> ZeroTime, End |-> ZeroTime, Summary |-> <<>>, Description |-> <<>>]

\* the index of the Property that Event.Property returns, 0 if there is none
Event_Property(evt, name) ==
  LET found == {i \in 1..Len(evt.Properties) : evt.Properties[i].Name = name}
  IN IF found = {} THEN 0 ELSE CHOOSE i \in found : \A j \in found : i <= j

\* one iteration of the loop over evt.Properties in parseEvent
eventField(p, evt, prop) ==
  LET start(r) == [evt |-> IF r.err = "nil" THEN [evt EXCEPT !.Start = r.t] ELSE evt,
                   err |-> r.err]
      end(r) == [evt |-> IF r.err = "nil" THEN [evt EXCEPT !.End = r.t] ELSE evt,
                 err |-> r.err]
      stamp(r) == [evt |-> IF r.err = "nil" THEN [evt EXCEPT !.Timestamp = r.t] ELSE evt,
                   err |-> r.err]
  IN CASE prop.Name = UID -> [evt |-> [evt EXCEPT !.UID = prop.Value], err |-> "nil"]
       [] prop.Name = DTSTART -> start(parseTime(p, prop))
       [] prop.Name = DTEND -> end(parseDTEND(p, prop))
       [] prop.Name = DTSTAMP -> stamp(parseTime(p, prop))
       [] prop.Name = SUMMARY -> [evt |-> [evt EXCEPT !.Summary = prop.Value], err |-> "nil"]
       [] prop.Name = DESCRIPTION ->
            [evt |-> [evt EXCEPT !.Description = prop.Value], err |-> "nil"]
       [] OTHER -> [evt |-> evt, err |-> "nil"]

applyDuration(evt) ==
  LET add(d) ==
        IF d.err # "nil" THEN [evt |-> evt, err |-> d.err]
        ELSE [evt |-> [evt EXCEPT !.End = Add(evt.Start, d.dur)], err |-> "nil"]
  IN IF Event_Property(evt, DTEND) # 0 THEN [evt |-> evt, err |-> "nil"]
     ELSE IF Event_Property(evt, DURATION) = 0 THEN [evt |-> evt, err |-> "nil"]
     ELSE add(parseDuration(evt.Properties[Event_Property(evt, DURATION)].Value))

\* applyImplicitOneDayDuration asking for an explicit VALUE=DATE
applyImplicitOneDayDuration_ExplicitDATE(evt) ==
  LET dtstart == evt.Properties[Event_Property(evt, DTSTART)]
  IN IF \/ Event_Property(evt, DTSTART) = 0
        \/ ~Contains(dtstart.Params, VALUE, DATE)
     THEN evt
     ELSE IF Event_Property(evt, DTEND) # 0 THEN evt
     ELSE IF Event_Property(evt, DURATION) # 0 THEN evt
     ELSE [evt EXCEPT !.End = Add(evt.Start, DurationTimes(Hour, 24))]

applyImplicitOneDayDuration(evt) ==
  LET dtstart == evt.Properties[Event_Property(evt, DTSTART)]
  IN IF \/ Event_Property(evt, DTSTART) = 0
        \/ ~(\/ Len(ParamValues(dtstart.Params, VALUE)) = 0
             \/ Contains(dtstart.Params, VALUE, DATE))
     THEN evt
     ELSE IF Event_Property(evt, DTEND) # 0 THEN evt
     ELSE IF Event_Property(evt, DURATION) # 0 THEN evt
     ELSE [evt EXCEPT !.End = Add(evt.Start, DurationTimes(Hour, 24))]

\* applyImplicitEndOfDayDuration ending at the midnight that begins the day
applyImplicitEndOfDayDuration_SameDay(evt) ==
  LET dtstart == evt.Properties[Event_Property(evt, DTSTART)]
  IN IF \/ Event_Property(evt, DTSTART) = 0
        \/ ~Contains(dtstart.Params, VALUE, DATE_TIME)
     THEN evt
     ELSE IF Event_Property(evt, DTEND) # 0 THEN evt
     ELSE [evt EXCEPT !.End =
             time_Date(Year(evt.Start), Month(evt.Start), Day(evt.Start),
                       0, 0, 0, evt.Start.loc)]

applyImplicitEndOfDayDuration(evt) ==
  LET dtstart == evt.Properties[Event_Property(evt, DTSTART)]
  IN IF \/ Event_Property(evt, DTSTART) = 0
        \/ ~Contains(dtstart.Params, VALUE, DATE_TIME)
     THEN evt
     ELSE IF Event_Property(evt, DTEND) # 0 THEN evt
     ELSE [evt EXCEPT !.End =
             AddDate(time_Date(Year(evt.Start), Month(evt.Start), Day(evt.Start),
                               0, 0, 0, evt.Start.loc), 1)]

finalize(evt) ==
  LET implicit(r) ==
        IF r.err # "nil" THEN r
        ELSE [evt |-> applyImplicitEndOfDayDuration(applyImplicitOneDayDuration(r.evt)),
              err |-> "nil"]
  IN implicit(applyDuration(evt))

\* the loop over evt.Properties and finalize, from the i-th property on
RECURSIVE eventFields(_, _, _)
eventFields(p, evt, i) ==
  LET continue(r) == IF r.err # "nil" THEN r ELSE eventFields(p, r.evt, i + 1)
  IN IF i > Len(evt.Properties) THEN finalize(evt)
     ELSE continue(eventField(p, evt, evt.Properties[i]))

(* ---------------------------------------------------------------------- *)
(* parse: the parser.  The parser is driven by the items p.next returns:  *)
(* a parse state is [p, at, into, cal, evt, alarm, name, params, pname,   *)
(* values, err], where p is the parser struct, at names the call of       *)
(* p.next the parser is at, into says whose property parseProperty reads, *)
(* and the other fields are the local variables of the parse functions.   *)
(* An error is the message it wraps; wrapping with %w keeps the message   *)
(* of the cause.                                                           *)
(* ---------------------------------------------------------------------- *)
VERSION == <<"V","E","R","S","I","O","N">>
METHOD == <<"M","E","T","H","O","D">>
PRODID == <<"P","R","O","D","I","D">>
TRIGGER == <<"T","R","I","G","G","E","R">>
ALARM_ACTION == <<"A","C","T","I","O","N">>
GREGORIAN == <<"G","R","E","G","O","R","I","A","N">>

Calendar ==
  [Properties |-> <<>>, ProductID |-> <<>>, Version |-> <<>>, Calscale |-> <<>>,
   Method |-> <<>>, Events |-> <<>>]

Alarm == [Properties |-> <<>>, Action |-> <<>>, Trigger |-> <<>>]

NoItem == [Type |-> "", Value |-> <<>>, Pos |-> 0]

NewParser(loc, inclusiveEnds) ==
  [loc |-> loc, inclusiveEnds |-> inclusiveEnds, buf |-> <<NoItem, NoItem>>,
   peekCount |-> 0, cal |-> Calendar]

\* the parse state when parse.Items calls p.parse()
Items(p) ==
  [p |-> p, at |-> "parseCalendar.begin", into |-> "", cal |-> Calendar, evt |-> Event,
   alarm |-> Alarm, name |-> <<>>, params |-> <<>>, pname |-> <<>>, values |-> <<>>,
   err |-> "nil"]

errEndOfItems == "end of items"

ctxErr == "context canceled"

\* a parse function returns the error
fail(st, msg) == [st EXCEPT !.at = "done", !.err = msg]

unexpectedType(st) == fail(st, "expected item of type %v; got %s")

\* p.backup() adding two to peekCount
parser_backup_Twice(st, at) == [st EXCEPT !.p.peekCount = st.p.peekCount + 2, !.at = at]

\* p.backup() before the next call of p.next
parser_backup(st, at) == [st EXCEPT !.p.peekCount = st.p.peekCount + 1, !.at = at]

\* the first value of the property with the given name, old if there is none
lastValue_First(props, name, old) ==
  LET named == {i \in 1..Len(props) : props[i].Name = name}
  IN IF named = {} THEN old
     ELSE props[CHOOSE i \in named : \A j \in named : i <= j].Value

\* the last value of the property with the given name, old if there is none
lastValue(props, name, old) ==
  LET named == {i \in 1..Len(props) : props[i].Name = name}
  IN IF named = {} THEN old
     ELSE props[CHOOSE i \in named : \A j \in named : j <= i].Value

\* parseCalendar: the first item
parseCalendar_begin(st, item) ==
  IF item.Type # "CalendarBegin" THEN unexpectedType(st)
  ELSE [st EXCEPT !.cal = [Calendar EXCEPT !.Calscale = GREGORIAN],
                  !.at = "parseCalendar.loop"]

\* parseCalendar with a loop that skips the items it does not expect
parseCalendar_loop_Lenient(st, item) ==
  CASE item.Type = "CalendarEnd" ->
         [st EXCEPT !.p.cal =
                      [st.cal EXCEPT
                         !.Version = lastValue(st.cal.Properties, VERSION, <<>>),
                         !.Method = lastValue(st.cal.Properties, METHOD, <<>>),
                         !.ProductID = lastValue(st.cal.Properties, PRODID, <<>>)],
                    !.at = "done"]
    [] item.Type = "EventBegin" -> parser_backup(st, "parseEvent.begin")
    [] item.Type = "Name" ->
         [parser_backup(st, "parseProperty.name") EXCEPT !.into = "cal"]
    [] OTHER -> st

\* parseCalendar: an item of the loop; END:VCALENDAR ends the parse
parseCalendar_loop(st, item) ==
  CASE item.Type = "CalendarEnd" ->
         [st EXCEPT !.p.cal =
                      [st.cal EXCEPT
                         !.Version = lastValue(st.cal.Properties, VERSION, <<>>),
                         !.Method = lastValue(st.cal.Properties, METHOD, <<>>),
                         !.ProductID = lastValue(st.cal.Properties, PRODID, <<>>)],
                    !.at = "done"]
    [] item.Type = "EventBegin" -> parser_backup(st, "parseEvent.begin")
    [] item.Type = "Name" ->
         [parser_backup(st, "parseProperty.name") EXCEPT !.into = "cal"]
    [] OTHER -> fail(st, "unexpected item of type %s")

parseEvent_begin(st, item) ==
  IF item.Type # "EventBegin" THEN unexpectedType(st)
  ELSE [st EXCEPT !.evt = Event, !.at = "parseEvent.loop"]

parseEvent_loop(st, item) ==
  CASE item.Type = "EventEnd" -> parser_backup(st, "parseEvent.end")
    [] item.Type = "AlarmBegin" -> parser_backup(st, "parseAlarm.begin")
    [] item.Type = "Name" ->
         [parser_backup(st, "parseProperty.name") EXCEPT !.into = "evt"]
    [] OTHER -> unexpectedType(st)

\* parseEvent from END:VEVENT on, and the append in parseCalendar
parseEvent_end(st, item) ==
  LET return(r) ==
        IF r.err # "nil" THEN fail([st EXCEPT !.evt = r.evt], r.err)
        ELSE [st EXCEPT !.evt = r.evt,
                        !.cal.Events = Append(st.cal.Events, r.evt),
                        !.at = "parseCalendar.loop"]
  IN IF item.Type # "EventEnd" THEN unexpectedType(st)
     ELSE return(eventFields(st.p, st.evt, 1))

parseAlarm_begin(st, item) ==
  IF item.Type # "AlarmBegin" THEN unexpectedType(st)
  ELSE [st EXCEPT !.alarm = Alarm, !.at = "parseAlarm.loop"]

parseAlarm_loop(st, item) ==
  CASE item.Type = "AlarmEnd" -> parser_backup(st, "parseAlarm.end")
    [] item.Type = "Name" ->
         [parser_backup(st, "parseProperty.name") EXCEPT !.into = "alarm"]
    [] OTHER -> unexpectedType(st)

\* parseAlarm from END:VALARM on, the alarm put before the event's alarms
parseAlarm_end_Prepend(st, item) ==
  LET done(alarm) ==
        [st EXCEPT !.alarm = alarm,
                   !.evt.Alarms = <<alarm>> \o st.evt.Alarms,
                   !.at = "parseEvent.loop"]
  IN IF item.Type # "AlarmEnd" THEN unexpectedType(st)
     ELSE done([st.alarm EXCEPT
                  !.Trigger = lastValue(st.alarm.Properties, TRIGGER, <<>>),
                  !.Action = lastValue(st.alarm.Properties, ALARM_ACTION, <<>>)])

\* parseAlarm from END:VALARM on, and the append in parseEvent
parseAlarm_end(st, item) ==
  LET done(alarm) ==
        [st EXCEPT !.alarm = alarm,
                   !.evt.Alarms = Append(st.evt.Alarms, alarm),
                   !.at = "parseEvent.loop"]
  IN IF item.Type # "AlarmEnd" THEN unexpectedType(st)
     ELSE done([st.alarm EXCEPT
                  !.Trigger = lastValue(st.alarm.Properties, TRIGGER, <<>>),
                  !.Action = lastValue(st.alarm.Properties, ALARM_ACTION, <<>>)])

\* parseProperty returns the property to the loop that called it
appendProperty(st, value) ==
  LET prop == Property(st.name, st.params, value)
  IN CASE st.into = "cal" ->
            [st EXCEPT !.cal.Properties = Append(st.cal.Properties, prop),
                       !.at = "parseCalendar.loop"]
       [] st.into = "evt" ->
            [st EXCEPT !.evt.Properties = Append(st.evt.Properties, prop),
                       !.at = "parseEvent.loop"]
       [] st.into = "alarm" ->
            [st EXCEPT !.alarm.Properties = Append(st.alarm.Properties, prop),
                       !.at = "parseAlarm.loop"]

parseProperty_name(st, item) ==
  IF item.Type # "Name" THEN unexpectedType(st)
  ELSE [st EXCEPT !.name = item.Value, !.params = <<>>, !.at = "parseProperty.next"]

\* parseProperty: the item after the name
parseProperty_next(st, item) ==
  IF item.Type = "ParamName" THEN parser_backup(st, "parseParams.name")
  ELSE IF item.Type # "Value" THEN unexpectedType(st)
  ELSE appendProperty(st, item.Value)

\* parseParams: an item of the outer loop
parseParams_name(st, item) ==
  IF item.Type # "ParamName" THEN parser_backup(st, "parseProperty.value")
  ELSE [st EXCEPT !.pname = item.Value, !.values = <<>>, !.at = "parseParams.values"]

\* parseParams: an item of the inner loop
parseParams_values(st, item) ==
  IF item.Type # "ParamValue"
  THEN [parser_backup(st, "parseParams.name") EXCEPT
          !.params = (st.pname :> st.values) @@ st.params]
  ELSE [st EXCEPT !.values = Append(st.values, item.Value)]

\* parseProperty: the value after the parameters
parseProperty_value(st, item) ==
  IF item.Type # "Value" THEN unexpectedType(st)
  ELSE appendProperty(st, item.Value)

\* the parser goes on with the item p.next returned
parser_step(st, item) ==
  CASE st.at = "parseCalendar.begin" -> parseCalendar_begin(st, item)
    [] st.at = "parseCalendar.loop" -> parseCalendar_loop(st, item)
    [] st.at = "parseEvent.begin" -> parseEvent_begin(st, item)
    [] st.at = "parseEvent.loop" -> parseEvent_loop(st, item)
    [] st.at = "parseEvent.end" -> parseEvent_end(st, item)
    [] st.at = "parseAlarm.begin" -> parseAlarm_begin(st, item)
    [] st.at = "parseAlarm.loop" -> parseAlarm_loop(st, item)
    [] st.at = "parseAlarm.end" -> parseAlarm_end(st, item)
    [] st.at = "parseProperty.name" -> parseProperty_name(st, item)
    [] st.at = "parseProperty.next" -> parseProperty_next(st, item)
    [] st.at = "parseParams.name" -> parseParams_name(st, item)
    [] st.at = "parseParams.values" -> parseParams_values(st, item)
    [] st.at = "parseProperty.value" -> parseProperty_value(st, item)

\* p.next with an item pushed back: peekCount-- and the item is
\* buf[peekCount], the element peekCount + 1 of the sequence buf
parser_pop(st) ==
  parser_step([st EXCEPT !.p.peekCount = st.p.peekCount - 1], st.p.buf[st.p.peekCount])

\* p.next with nothing pushed back, the channel delivers the item
parser_receive(st, item) == parser_step([st EXCEPT !.p.buf[1] = item], item)

\* p.parse() on a channel that delivers the given items and is then closed,
\* with a context that is never cancelled
RECURSIVE parser_parse(_, _)
parser_parse(st, its) ==
  IF st.at = "done" THEN st
  ELSE IF st.p.peekCount > 0 THEN parser_parse(parser_pop(st), its)
  ELSE IF its = <<>> THEN fail(st, errEndOfItems)
  ELSE parser_parse(parser_receive(st, Head(its)), Tail(its))

\* parse.Slice
Slice(its, loc, inclusiveEnds) == parser_parse(Items(NewParser(loc, inclusiveEnds)), its)

(* ---------------------------------------------------------------------- *)
(* encode: the Encoder.  The writer receives bytes; a byte is the rune it *)
(* starts or utf8cont for the second byte of a two-byte rune.             *)
(* ---------------------------------------------------------------------- *)
utf8cont == "<cont>"

foldWidth == 75

\* []byte(s)
RECURSIVE Bytes(_)
Bytes(s) ==
  IF s = <<>> THEN <<>>
  ELSE IF Len(s) = 1 THEN (IF RuneLen(s[1]) = 2 THEN <<s[1], utf8cont>> ELSE s)
  ELSE Bytes(SubSeq(s, 1, Len(s) \div 2)) \o Bytes(SubSeq(s, (Len(s) \div 2) + 1, Len(s)))

\* string(b)
Runes(b) == SelectSeq(b, LAMBDA c : c # utf8cont)

\* the runes of names in the order of their first bytes
RuneOrder ==
  <<"-","0","1","2","3","4","5","6","7","8","9",
    "A","B","C","D","E","F","G","H","I","J","K","L","M","N","O","P","Q","R",
    "S","T","U","V","W","X","Y","Z","a","b","x","y", EACUTE>>

RuneRank(r) == CHOOSE i \in 1..Len(RuneOrder) : RuneOrder[i] = r

\* a < b on strings
RECURSIVE StringLess(_, _)
StringLess(a, b) ==
  IF b = <<>> THEN FALSE
  ELSE IF a = <<>> THEN TRUE
  ELSE IF Head(a) = Head(b) THEN StringLess(Tail(a), Tail(b))
  ELSE RuneRank(Head(a)) < RuneRank(Head(b))

\* strings.Join
RECURSIVE Join(_, _)
Join(elems, sep) ==
  IF elems = <<>> THEN <<>>
  ELSE IF Len(elems) = 1 THEN elems[1]
  ELSE elems[1] \o sep \o Join(Tail(elems), sep)

\* the slice params after the loop over the map prop.Params, when the map
\* is iterated in the order visit (a sequence that holds every name once)
rangeParams(params, visit) == SelectSeq(visit, LAMBDA n : n \in DOMAIN params)

\* sort.Slice left out: the slice stays in iteration order
sortSlice_Unsorted(names) == names

\* sort.Slice(params, func(a, b int) bool { return params[a].name < params[b].name })
RECURSIVE sortSlice(_)
sortSlice(names) ==
  IF names = <<>> THEN <<>>
  ELSE LET least == CHOOSE i \in 1..Len(names) :
                      \A j \in 1..Len(names) : ~StringLess(names[j], names[i])
       IN <<names[least]>>
            \o sortSlice(SubSeq(names, 1, least - 1) \o SubSeq(names, least + 1, Len(names)))

\* the line Encoder.property builds before it folds it
propertyLine(prop, visit) ==
  LET names == sortSlice(rangeParams(prop.Params, visit))
      param(i) == <<";">> \o names[i] \o <<"=">> \o Join(prop.Params[names[i]], <<",">>)
      params == [i \in 1..Len(names) |-> param(i)]
  IN prop.Name \o Join(params, <<>>) \o <<":">> \o prop.Value

\* the splits of a line without the loop that moves r back to the start
\* of a rune
RECURSIVE splitLine_AnyByte(_, _, _)
splitLine_AnyByte(line, left, right) ==
  IF right >= Len(line) THEN <<SubSeq(line, left + 1, Len(line))>>
  ELSE <<SubSeq(line, left + 1, right)>>
         \o splitLine_AnyByte(line, right, right + foldWidth)

\* the splits of a line: l and r as in the loop of Encoder.property
RECURSIVE splitLine(_, _, _)
splitLine(line, left, right) ==
  LET runeStart == CHOOSE i \in 0..right :
                     /\ line[i + 1] # utf8cont
                     /\ \A j \in (i + 1)..right : line[j + 1] = utf8cont
  IN IF right >= Len(line) THEN <<SubSeq(line, left + 1, Len(line))>>
     ELSE <<SubSeq(line, left + 1, runeStart)>>
            \o splitLine(line, runeStart, runeStart + foldWidth)

\* the bytes Encoder.property writes
Encoder_property(prop, visit) ==
  Bytes(<<cr, lf>>) \o Join(splitLine(Bytes(propertyLine(prop, visit)), 0, foldWidth),
                            Bytes(<<cr, lf, SP>>))

RECURSIVE Encoder_properties(_, _)
Encoder_properties(props, visit) ==
  IF props = <<>> THEN <<>>
  ELSE Encoder_property(Head(props), visit) \o Encoder_properties(Tail(props), visit)

Encoder_alarm(alarm, visit) ==
  Bytes(<<cr, lf>> \o beginVAlarm) \o Encoder_properties(alarm.Properties, visit)
    \o Bytes(<<cr, lf>> \o endVAlarm)

RECURSIVE Encoder_alarms(_, _)
Encoder_alarms(alarms, visit) ==
  IF alarms = <<>> THEN <<>>
  ELSE Encoder_alarm(Head(alarms), visit) \o Encoder_alarms(Tail(alarms), visit)

\* Encoder.event writing the alarms before the properties
Encoder_event_AlarmsFirst(evt, visit) ==
  Bytes(<<cr, lf>> \o beginVEvent) \o Encoder_alarms(evt.Alarms, visit)
    \o Encoder_properties(evt.Properties, visit) \o Bytes(<<cr, lf>> \o endVEvent)

Encoder_event(evt, visit) ==
  Bytes(<<cr, lf>> \o beginVEvent) \o Encoder_properties(evt.Properties, visit)
    \o Encoder_alarms(evt.Alarms, visit) \o Bytes(<<cr, lf>> \o endVEvent)

RECURSIVE Encoder_events(_, _)
Encoder_events(events, visit) ==
  IF events = <<>> THEN <<>>
  ELSE Encoder_event(Head(events), visit) \o Encoder_events(Tail(events), visit)

\* the bytes Encoder.Encode writes when every loop over a Params map visits
\* the names in the order visit
Encoder_Encode(cal, visit) ==
  Bytes(beginVCalender) \o Encoder_properties(cal.Properties, visit)
    \o Encoder_events(cal.Events, visit) \o Bytes(<<cr, lf>> \o endVCalendar)

\* the parameter names of a list of properties
ParamNames(props) == UNION {DOMAIN props[i].Params : i \in 1..Len(props)}

\* every parameter name of the calendar, of its events and of their alarms
CalendarParamNames(cal) ==
  ParamNames(cal.Properties)
    \cup UNION {ParamNames(cal.Events[i].Properties)
                  \cup UNION {ParamNames(cal.Events[i].Alarms[j].Properties) :
                                j \in 1..Len(cal.Events[i].Alarms)} :
                i \in 1..Len(cal.Events)}

\* the orders in which a loop over a map may visit the names
RECURSIVE IterationOrders(_)
IterationOrders(names) ==
  IF names = {} THEN {<<>>}
  ELSE UNION {{<<n>> \o rest : rest \in IterationOrders(names \ {n})} : n \in names}

(* ---------------------------------------------------------------------- *)
(* State                                                                   *)
(* ---------------------------------------------------------------------- *)
VARIABLES
  doc,      \* the text the io.Reader delivers
  strict,   \* the StrictLineBreaks option
  l,        \* the lexer struct
  state,    \* the state function the Reader loop calls next, "nil" after the loop
  pending,  \* items the running state function sends on l.items, not yet received
  items,    \* the items received from the channel so far
  closed,   \* the channel l.items is closed
  ctxDone,  \* the context is cancelled
  p,        \* the parser whose parseEvent is running
  evt,      \* the Event that parseEvent is filling in
  fieldIdx, \* the number of properties the loop over evt.Properties has handled
  evtPC,    \* where parseEvent is: "idle", "fields", "applyDuration",
            \* "applyImplicitOneDayDuration", "applyImplicitEndOfDayDuration", "done"
  err,      \* the error parseEvent returns
  par,      \* the parse state of a call of parse.Items, "idle" when there is none
  receiving, \* p.next has passed its context check and waits for the channel
  rtPC,      \* the round trip: "idle", "parse", "encode", "reparse", "done", "failed"
  first,     \* the parse state ical.Parse ended in for the document
  encoded,   \* the bytes ical.Encode wrote for the Calendar of first
  second,    \* the parse state ical.Parse ended in for the encoded bytes
  raw,       \* the string parseDuration is called with
  duration,  \* the time.Duration parseDuration returned
  durErr,    \* the error parseDuration returned
  durPC      \* the call of parseDuration: "idle", "call", "done"

lexVars == <<doc, strict, l, state, pending, items, closed, ctxDone>>

evtVars == <<p, evt, fieldIdx, evtPC, err>>

parVars == <<par, receiving>>

rtVars == <<rtPC, first, encoded, second>>

durVars == <<raw, duration, durErr, durPC>>

vars == <<lexVars, evtVars, parVars, rtVars, durVars>>

(* ---------------------------------------------------------------------- *)
(* Bounds and inputs                                                       *)
(* ---------------------------------------------------------------------- *)
MaxPieces == 3
MaxFolds == 2

Pieces ==
  {<<"A">>, <<":">>, <<";">>, <<"=">>, <<",">>, <<SP>>, <<TAB>>, <<cr>>, <<lf>>,
   <<DQUOTE>>}

RECURSIVE PieceTexts(_)
PieceTexts(n) ==
  IF n = 0 THEN {<<>>}
  ELSE LET shorter == PieceTexts(n - 1)
       IN shorter \cup {pc \o t : pc \in Pieces, t \in shorter}

Folds == {<<cr, lf, SP>>, <<cr, lf, TAB>>, <<lf, SP>>, <<lf, TAB>>}

Chunks == {<<>>, <<SP, "x">>}

\* a property value folded at most n times
RECURSIVE FoldedValues(_)
FoldedValues(n) ==
  IF n = 0 THEN Chunks
  ELSE LET fewer == FoldedValues(n - 1)
       IN fewer \cup {c \o f \o v : c \in Chunks, f \in Folds, v \in fewer}

LineTails == {<<>>, <<cr, lf>> \o endVCalendar, <<lf>> \o endVCalendar}

FoldedTexts == {<<"A", ":">> \o v \o t : v \in FoldedValues(MaxFolds), t \in LineTails}

\* a structural marker followed by at most one piece
MarkerTexts == {markers[i][1] \o t : i \in 1..Len(markers), t \in PieceTexts(1)}

LineBreaks == {<<cr, lf>>, <<lf>>}

\* two property lines separated by one line break or by an empty line
TwoLineTexts ==
  {<<"A", ":", "x">> \o b \o e \o <<"B", ":", "y">> :
     b \in LineBreaks, e \in {<<>>} \cup LineBreaks}

\* the part of a content line before its value, with the items it lexes to
EmptyValueHeads ==
  {[text |-> <<"A", ":">>, tokens |-> <<<<"Name", <<"A">>>>>>],
   [text |-> <<"A", ";", "b", ":">>,
    tokens |-> <<<<"Name", <<"A">>>>, <<"ParamName", <<"b">>>>>>],
   [text |-> <<"A", ";", "b", "=", "1", ",", "2", ":">>,
    tokens |-> <<<<"Name", <<"A">>>>, <<"ParamName", <<"b">>>>,
                 <<"ParamValue", <<"1">>>>, <<"ParamValue", <<"2">>>>>>]}

\* a content line with an empty value: at the end of the text, or followed by
\* a line break, then nothing, an empty line or a form feed, then nothing or
\* the line B:y
EmptyValueTexts ==
  {h.text \o t : h \in EmptyValueHeads,
     t \in {<<>>} \cup {b \o e \o n : b \in LineBreaks,
                                      e \in {<<>>, <<FF>>} \cup LineBreaks,
                                      n \in {<<>>, <<"B", ":", "y">>}}}

\* what stands between the double quotes of a quoted parameter value
QuotedBodies ==
  {<<>>, <<"x">>, <<",">>, <<";">>, <<":">>, <<"x", ",", "y">>, <<"x", ";", "y", ":">>}

\* the line A;b="...":v
QuotedText(body) ==
  <<"A", ";", "b", "=", DQUOTE>> \o body \o <<DQUOTE, ":", "v">>

QuotedTexts == {QuotedText(q) : q \in QuotedBodies}

\* content lines without a name, and a parameter without a name
NamelessTexts ==
  {<<":", "v">>, <<";", "b", "=", "x", ":", "v">>, <<"A", ";", "=", "x", ":", "v">>,
   <<"A", ":", "v", cr, lf, ";", "b", "=", "x", ":", "v">>}

LexInputs ==
  PieceTexts(MaxPieces) \cup FoldedTexts \cup MarkerTexts \cup TwoLineTexts
    \cup EmptyValueTexts \cup QuotedTexts \cup NamelessTexts

(* ---------------------------------------------------------------------- *)
(* lex.Reader: the goroutine, a consumer that ranges over the channel,     *)
(* and the owner of the context                                            *)
(* ---------------------------------------------------------------------- *)
\* parse.Items has not been called, nothing is encoded
NoParse ==
  /\ par = [Items(NewParser("nil", FALSE)) EXCEPT !.at = "idle"]
  /\ receiving = FALSE
  /\ rtPC = "idle"
  /\ first = [Items(NewParser("nil", FALSE)) EXCEPT !.at = "idle"]
  /\ encoded = <<>>
  /\ second = [Items(NewParser("nil", FALSE)) EXCEPT !.at = "idle"]

\* parseDuration is not called
NoDuration ==
  /\ raw = <<>>
  /\ duration = ZeroDuration
  /\ durErr = "nil"
  /\ durPC = "idle"

\* no event is being parsed
NoEvent ==
  /\ p = NewParser("nil", FALSE)
  /\ evt = Event
  /\ fieldIdx = 0
  /\ evtPC = "idle"
  /\ err = "nil"

InitLex ==
  /\ doc \in LexInputs
  /\ strict \in BOOLEAN
  /\ l = NewLexer(doc, strict)
  /\ state = "lexContentLine"
  /\ pending = <<>>
  /\ items = <<>>
  /\ closed = FALSE
  /\ ctxDone = FALSE
  /\ NoEvent
  /\ NoParse
  /\ NoDuration

\* one iteration of the Reader loop, default branch: state = state(&l)
RunState(name, s) ==
  /\ state = name
  /\ ~closed
  /\ pending = <<>>
  /\ ~ctxDone
  /\ l' = [s.l EXCEPT !.out = <<>>]
  /\ pending' = s.l.out
  /\ state' = s.nxt
  /\ UNCHANGED <<doc, strict, items, closed, ctxDone>>
  /\ UNCHANGED <<evtVars, parVars, rtVars, durVars>>

LexContentLine == RunState("lexContentLine", lexContentLine(l))
LexNewLine == RunState("lexNewLine", lexNewLine(l))
LexName == RunState("lexName", lexName(l))
LexValue == RunState("lexValue", lexValue(l))
LexParamName == RunState("lexParamName", lexParamName(l))
LexParamValue == RunState("lexParamValue", lexParamValue(l))

\* the branch <-l.ctx.Done() returning without a send
LexCtxDone_Silent ==
  /\ state # "nil"
  /\ pending = <<>>
  /\ ctxDone
  /\ state' = "nil"
  /\ UNCHANGED <<doc, strict, l, pending, items, closed, ctxDone>>
  /\ UNCHANGED <<evtVars, parVars, rtVars, durVars>>

\* one iteration of the Reader loop, branch <-l.ctx.Done()
LexCtxDone ==
  /\ state # "nil"
  /\ pending = <<>>
  /\ ctxDone
  /\ pending' = <<CtxErrItem>>
  /\ state' = "nil"
  /\ UNCHANGED <<doc, strict, l, items, closed, ctxDone>>
  /\ UNCHANGED <<evtVars, parVars, rtVars, durVars>>

\* the deferred close(l.items)
LexClose ==
  /\ state = "nil"
  /\ pending = <<>>
  /\ ~closed
  /\ closed' = TRUE
  /\ UNCHANGED <<doc, strict, l, state, pending, items, ctxDone>>
  /\ UNCHANGED <<evtVars, parVars, rtVars, durVars>>

\* the consumer receives the item the goroutine is sending
Receive ==
  /\ pending # <<>>
  /\ items' = Append(items, Head(pending))
  /\ pending' = Tail(pending)
  /\ UNCHANGED <<doc, strict, l, state, closed, ctxDone>>
  /\ UNCHANGED <<evtVars, parVars, rtVars, durVars>>

\* the owner of the context cancels it
Cancel ==
  /\ ~ctxDone
  /\ ~closed
  /\ ctxDone' = TRUE
  /\ UNCHANGED <<doc, strict, l, state, pending, items, closed>>
  /\ UNCHANGED <<evtVars, parVars, rtVars, durVars>>

LexStep ==
  \/ LexContentLine
  \/ LexNewLine
  \/ LexName
  \/ LexValue
  \/ LexParamName
  \/ LexParamValue
  \/ LexCtxDone
  \/ LexClose

NextLex == LexStep \/ Receive \/ Cancel

SpecLex == InitLex /\ [][NextLex]_vars

(* ---------------------------------------------------------------------- *)
(* Claims about the lexer (SpecLex)                                        *)
(* ---------------------------------------------------------------------- *)
\* the consumer has received everything and the context was never cancelled
LexedAll == closed /\ ~ctxDone

\* every line break of s is followed by one space or tab (a fold), and every
\* other rune is a value character
RECURSIVE IsFoldedValue(_)
IsFoldedValue(s) ==
  IF s = <<>> THEN TRUE
  ELSE IF \E f \in Folds : HasPrefix(s, f)
  THEN IsFoldedValue(DropN(s, Len(CHOOSE f \in Folds : HasPrefix(s, f))))
  ELSE Head(s) \notin {cr, lf} /\ isValueChar(Head(s)) /\ IsFoldedValue(Tail(s))

\* the value before it was folded: every fold deleted, nothing else
RECURSIVE Unfolded(_)
Unfolded(s) ==
  IF s = <<>> THEN <<>>
  ELSE IF \E f \in Folds : HasPrefix(s, f)
  THEN Unfolded(DropN(s, Len(CHOOSE f \in Folds : HasPrefix(s, f))))
  ELSE <<Head(s)>> \o Unfolded(Tail(s))

RECURSIVE NumFolds(_)
NumFolds(s) ==
  IF s = <<>> THEN 0
  ELSE IF \E f \in Folds : HasPrefix(s, f)
  THEN 1 + NumFolds(DropN(s, Len(CHOOSE f \in Folds : HasPrefix(s, f))))
  ELSE NumFolds(Tail(s))

\* what may follow a value: the end of the text, or a line break that is not a fold
IsLineTail(t) ==
  \/ t = <<>>
  \/ \E b \in LineBreaks :
       /\ HasPrefix(t, b)
       /\ (Len(t) > Len(b) => ~IsSpace(t[Len(b) + 1]))

\* the text is A: followed by a folded value of k - 2 runes and a line tail
IsFoldedLine(k) ==
  /\ k >= 2
  /\ HasPrefix(doc, <<"A", ":">>)
  /\ IsFoldedValue(SubSeq(doc, 3, k))
  /\ IsLineTail(DropN(doc, k))

\* C2: in default mode a value folded across N lines (CRLF or LF followed by
\* one space or tab) is emitted as one Value item whose text is the value with
\* exactly the folds deleted
C2_Unfolding ==
  \A k \in 0..Len(doc) :
    (LexedAll /\ ~strict /\ IsFoldedLine(k)) =>
      /\ Len(items) >= 2
      /\ items[1] = Item("Name", <<"A">>)
      /\ items[2] = Item("Value", Unfolded(SubSeq(doc, 3, k)))
      /\ (k = Len(doc) => Len(items) = 2)
      /\ (\E b \in LineBreaks : DropN(doc, k) = b \o endVCalendar) =>
           SubSeq(items, 3, Len(items)) =
             <<Item("CalendarEnd", endVCalendar), Item("EOF", <<>>)>>

\* a value folded twice, once with CRLF and once with LF, with a second
\* leading space on a continuation line, has been lexed
C2_Witness ==
  \E k \in 0..Len(doc) :
    /\ LexedAll /\ ~strict /\ IsFoldedLine(k)
    /\ NumFolds(SubSeq(doc, 3, k)) >= 2
    /\ \E i \in 3..(k - 2) : SubSeq(doc, i, i + 2) = <<lf, SP, SP>>
    /\ \E i \in 3..(k - 2) : SubSeq(doc, i, i + 2) = <<cr, lf, TAB>>
    /\ Len(items) >= 2
    /\ items[2].Type = "Value"
    /\ Len(items[2].Value) >= 2

\* C3: the items of every text end with exactly one terminal item, EOF or
\* Error, sent last before the channel is closed
C3_TerminalToken ==
  closed =>
    /\ items # <<>>
    /\ Last(items).Type \in {"EOF", "Error"}
    /\ \A i \in 1..(Len(items) - 1) : items[i].Type \notin {"EOF", "Error"}

\* byte offsets (counted from 1) of the line feeds not preceded by CR
BareLFs(s) ==
  {ByteLen(SubSeq(s, 1, i)) : i \in {j \in 1..Len(s) : s[j] = lf /\ (j = 1 \/ s[j - 1] # cr)}}

\* the text lexes without an Error item in default mode
LexesInDefaultMode(s) == \A it \in Range(Reader(s, FALSE)) : it.Type # "Error"

\* C4: with StrictLineBreaks every text with a bare LF ends in an Error item
\* naming the offset of a bare LF; BEGIN:VCALENDAR LF gives CalendarBegin and
\* the Error at pos 16 (stated for the texts that default mode accepts)
C4_StrictBareLF ==
  (LexedAll /\ strict /\ BareLFs(doc) # {} /\ LexesInDefaultMode(doc)) =>
    /\ items # <<>>
    /\ Last(items).Type = "Error"
    /\ Last(items).Pos \in BareLFs(doc)
    /\ (HasPrefix(doc, beginVCalender \o <<lf>>) =>
          items = <<Item("CalendarBegin", beginVCalender),
                    ErrItem("missing carriage return (CR) at pos %d", <<>>, 16)>>)

\* strings.ReplaceAll(s, "\n", "\r\n")
RECURSIVE ToCRLF(_)
ToCRLF(s) ==
  IF s = <<>> THEN <<>>
  ELSE (IF Head(s) = lf THEN <<cr, lf>> ELSE <<Head(s)>>) \o ToCRLF(Tail(s))

\* an item without the position its error message prints
Tokens(its) == [i \in 1..Len(its) |-> <<its[i].Type, its[i].Value>>]

\* C5: in default mode a text with bare LF line breaks gives the same items
\* as the text with every LF replaced by CRLF (stated for the texts whose
\* CRLF form lexes without an Error item)
C5_LFAsCRLF ==
  (/\ LexedAll /\ ~strict /\ lf \in Range(doc) /\ cr \notin Range(doc)
   /\ LexesInDefaultMode(ToCRLF(doc))) =>
    Tokens(items) = Tokens(Reader(ToCRLF(doc), FALSE))

\* the items the goroutine has sent or is sending, in order
Stream == items \o pending

\* C12 as stated: whenever the context was cancelled before the channel was
\* closed, the last item received is the Error item of ctx.Err()
C12_CancelledStream ==
  (closed /\ ctxDone) => (items # <<>> /\ Last(items) = CtxErrItem)

\* C12, for a cancellation that happens before the goroutine's last state
\* function has returned nil: from then on no state function runs (no EOF
\* and no content item is added), the loop ends only by sending the Error
\* item of ctx.Err(), nothing is sent after the loop has ended, and the
\* channel is closed only after everything was received
C12_CancelWhileRunning ==
  [][/\ (ctxDone /\ state # "nil") =>
          \/ Stream' = Stream /\ state' = state
          \/ Stream' = Append(Stream, CtxErrItem) /\ state' = "nil"
     /\ state = "nil" => (Stream' = Stream /\ state' = "nil")
     /\ closed' => (state' = "nil" /\ pending' = <<>>)]_vars

\* the consumer received content items, then the Error item of ctx.Err(),
\* and the channel is closed
C12_Witness ==
  /\ closed /\ ctxDone
  /\ Len(items) >= 2
  /\ Last(items) = CtxErrItem
  /\ \A i \in 1..(Len(items) - 1) : items[i].Type \notin {"Error", "EOF"}

\* what follows the ':' of a content line whose value is empty: the end of
\* the text, or a line break that does not start a fold (CRLF or LF followed
\* by a space or a tab continues the value on the next line)
IsEmptyValueTail(t) ==
  \/ t = <<>>
  \/ /\ \E b \in LineBreaks : HasPrefix(t, b)
     /\ ~\E f \in Folds : HasPrefix(t, f)

\* C21: for a content line whose ':' is followed at once by CRLF, by LF or by
\* the end of the text, the item after the items of the name and parameters
\* is a Value item with the empty text, and no second Value item follows it
C21_EmptyValue ==
  \A h \in EmptyValueHeads :
    (LexedAll /\ HasPrefix(doc, h.text) /\ IsEmptyValueTail(DropN(doc, Len(h.text)))) =>
      /\ Len(items) > Len(h.tokens)
      /\ SubSeq(Tokens(items), 1, Len(h.tokens) + 1) = Append(h.tokens, <<"Value", <<>>>>)
      /\ Len(items) > Len(h.tokens) + 1 => items[Len(h.tokens) + 2].Type # "Value"

\* C22: a double-quoted parameter value is emitted as one ParamValue item
\* (with or without its quotes); ',', ';' and ':' between the quotes end
\* neither the parameter value nor the parameters, and the Value item holds
\* what follows the first ':' after the closing quote
C22_QuotedParamValue ==
  \A q \in QuotedBodies :
    (LexedAll /\ doc = QuotedText(q)) =>
      /\ Len(items) >= 4
      /\ SubSeq(Tokens(items), 1, 2) = <<<<"Name", <<"A">>>>, <<"ParamName", <<"b">>>>>>
      /\ items[3].Type = "ParamValue"
      /\ items[3].Value \in {q, <<DQUOTE>> \o q \o <<DQUOTE>>}
      /\ Tokens(items)[4] = <<"Value", <<"v">>>>

\* the index of the last item before the i-th whose type is not in types,
\* 0 when there is none
LastBefore(its, i, types) ==
  IF \E j \in 1..(i - 1) : its[j].Type \notin types
  THEN CHOOSE j \in 1..(i - 1) :
         /\ its[j].Type \notin types
         /\ \A k \in (j + 1)..(i - 1) : its[k].Type \in types
  ELSE 0

\* the i-th item stands behind an item of type t, with only items of the
\* types between them
Follows(its, i, t, types) ==
  /\ LastBefore(its, i, types) # 0
  /\ its[LastBefore(its, i, types)].Type = t

\* C35: in the items of a content line a ParamName, ParamValue or Value
\* stands behind the Name of the line, a ParamValue stands behind a
\* ParamName, and no Name is empty; a line that begins with ':' or ';'
\* gives an Error item, and no Value or ParamName without a Name
C35_WellFormedTokens ==
  \A i \in 1..Len(items) :
    /\ items[i].Type \in {"ParamName", "ParamValue", "Value"} =>
         Follows(items, i, "Name", {"ParamName", "ParamValue"})
    /\ items[i].Type = "ParamValue" => Follows(items, i, "ParamName", {"ParamValue"})
    /\ items[i].Type = "Name" => items[i].Value # <<>>

(* ---------------------------------------------------------------------- *)
(* parseEvent after END:VEVENT: the loop over evt.Properties and finalize  *)
(* (SpecEvt)                                                               *)
(* ---------------------------------------------------------------------- *)
MaxProps == 3

d20200131 == <<"2","0","2","0","0","1","3","1">>
d20200229 == <<"2","0","2","0","0","2","2","9">>
d20200231 == <<"2","0","2","0","0","2","3","1">>
t103020 == <<"T","1","0","3","0","2","0">>
t120000 == <<"T","1","2","0","0","0","0">>

NoParams == <<>>

EvtProps ==
  {Property(DTSTART, NoParams, d20200131),
   Property(DTSTART, VALUE :> <<DATE>>, d20200131),
   Property(DTSTART, VALUE :> <<DATE_TIME>>, d20200131 \o t103020),
   Property(DTSTART, NoParams, d20200131 \o t103020),
   Property(DTSTART, VALUE :> <<DATE_TIME>>, d20200131 \o t103020 \o <<"Z">>),
   Property(DTSTART, VALUE :> <<DATE>>, d20200231),
   Property(DTEND, NoParams, d20200229),
   Property(DTEND, VALUE :> <<DATE>>, d20200229),
   Property(DTEND, VALUE :> <<DATE>>, d20200229 \o t120000),
   Property(DTEND, VALUE :> <<DATE_TIME>>, d20200229 \o t120000),
   Property(DTEND, VALUE :> <<DATE_TIME>>, d20200229),
   Property(DURATION, NoParams, <<"P","1","D","T","1","H">>),
   Property(DURATION, NoParams, <<"X">>),
   Property(DTSTAMP, TZID :> <<<<"C","E","T">>>>, d20200131 \o t103020)}

\* the property lists of at most n properties
RECURSIVE PropLists(_)
PropLists(n) ==
  IF n = 0 THEN {<<>>}
  ELSE LET shorter == PropLists(n - 1)
       IN shorter \cup {<<pr>> \o ps : pr \in EvtProps, ps \in shorter}

\* the lexer has finished; parseEvent has read END:VEVENT
InitEvt ==
  /\ doc = <<>>
  /\ strict = FALSE
  /\ l = NewLexer(<<>>, FALSE)
  /\ state = "nil"
  /\ pending = <<>>
  /\ items = <<>>
  /\ closed = TRUE
  /\ ctxDone = FALSE
  /\ p \in {NewParser(loc, inclusiveEnds) : loc \in {"nil", "CET"}, inclusiveEnds \in BOOLEAN}
  /\ evt \in {[Event EXCEPT !.Properties = ps] : ps \in PropLists(MaxProps)}
  /\ fieldIdx = 0
  /\ evtPC = "fields"
  /\ err = "nil"
  /\ NoParse
  /\ NoDuration

\* one iteration of: for _, prop := range evt.Properties
EventField ==
  LET return(r) ==
        /\ evt' = r.evt
        /\ err' = r.err
        /\ evtPC' = IF r.err # "nil" THEN "done" ELSE "fields"
  IN /\ evtPC = "fields"
     /\ fieldIdx < Len(evt.Properties)
     /\ return(eventField(p, evt, evt.Properties[fieldIdx + 1]))
     /\ fieldIdx' = fieldIdx + 1
     /\ UNCHANGED <<p, lexVars, parVars, rtVars, durVars>>

\* finalize: evt.applyDuration()
ApplyDuration ==
  LET return(r) ==
        /\ evt' = r.evt
        /\ err' = r.err
        /\ evtPC' = IF r.err # "nil" THEN "done" ELSE "applyImplicitOneDayDuration"
  IN /\ evtPC = "fields"
     /\ fieldIdx = Len(evt.Properties)
     /\ return(applyDuration(evt))
     /\ UNCHANGED <<p, fieldIdx, lexVars, parVars, rtVars, durVars>>

\* finalize: evt.applyImplicitOneDayDuration()
ApplyImplicitOneDayDuration ==
  /\ evtPC = "applyImplicitOneDayDuration"
  /\ evt' = applyImplicitOneDayDuration(evt)
  /\ evtPC' = "applyImplicitEndOfDayDuration"
  /\ UNCHANGED <<p, fieldIdx, err, lexVars, parVars, rtVars, durVars>>

\* finalize: evt.applyImplicitEndOfDayDuration()
ApplyImplicitEndOfDayDuration ==
  /\ evtPC = "applyImplicitEndOfDayDuration"
  /\ evt' = applyImplicitEndOfDayDuration(evt)
  /\ evtPC' = "done"
  /\ UNCHANGED <<p, fieldIdx, err, lexVars, parVars, rtVars, durVars>>

NextEvt ==
  \/ EventField
  \/ ApplyDuration
  \/ ApplyImplicitOneDayDuration
  \/ ApplyImplicitEndOfDayDuration

SpecEvt == InitEvt /\ [][NextEvt]_vars

(* ---------------------------------------------------------------------- *)
(* Claims about the end of an event (SpecEvt)                              *)
(* ---------------------------------------------------------------------- *)
\* parseEvent has returned the event without an error
EventParsed == evtPC = "done" /\ err = "nil"

Has(name) == \E i \in 1..Len(evt.Properties) : evt.Properties[i].Name = name

\* the properties of the event with the given name
Named(name) == {pr \in Range(evt.Properties) : pr.Name = name}

\* the last property with the given name
LastNamed(name) ==
  evt.Properties[CHOOSE i \in 1..Len(evt.Properties) :
                   /\ evt.Properties[i].Name = name
                   /\ \A j \in (i + 1)..Len(evt.Properties) : evt.Properties[j].Name # name]

\* the instant a property resolves to: normalisation, layout, zone
Resolved(prop) ==
  ParseInLocation(timeLayout(p, prop).layout, timeLayout(p, prop).value,
                  timeLayout(p, prop).loc).t

\* the value of the property resolves as a DATE
IsDATEValue(prop) == timeLayout(p, prop).layout = layoutDate

NextDay(t) == [t EXCEPT !.day = t.day + 1]

C7_DurationEnd ==
  (EventParsed /\ ~Has(DTEND) /\ Has(DURATION)) =>
    evt.End = Add(evt.Start,
                  parseDuration(evt.Properties[Event_Property(evt, DURATION)].Value).dur)

ValueIs(prop, val) == ParamValues(prop.Params, VALUE) = <<val>>

ValueAbsent(prop) == ParamValues(prop.Params, VALUE) = <<>>

TimeParams ==
  {vp @@ tz :
     vp \in {NoParams, VALUE :> <<DATE>>, VALUE :> <<DATE_TIME>>},
     tz \in {NoParams,
             TZID :> <<<<"C","E","T">>>>,
             TZID :> <<<<"X">>>>,
             TZID :> <<<<"X">>, <<"C","E","T">>>>,
             TZID :> <<<<"C","E","T">>, <<"U","T","C">>>>}}

\* a date, a date-time, a UTC date-time, a date-time with four digits of
\* time, February 31st, a date followed by Z, and 16 digits
TimeValues ==
  {d20200131, d20200131 \o t103020, d20200131 \o t103020 \o <<"Z">>,
   d20200131 \o <<"T", "1", "0", "3", "0">>, d20200231, d20200131 \o <<"Z">>,
   d20200131 \o d20200131}

TimeProps ==
  {Property(name, params, value) :
     name \in {DTSTART, DTSTAMP}, params \in TimeParams, value \in TimeValues}

InitTime ==
  /\ doc = <<>>
  /\ strict = FALSE
  /\ l = NewLexer(<<>>, FALSE)
  /\ state = "nil"
  /\ pending = <<>>
  /\ items = <<>>
  /\ closed = TRUE
  /\ ctxDone = FALSE
  /\ p \in {NewParser(loc, FALSE) : loc \in {"nil", "CET", "UTC"}}
  /\ evt \in {[Event EXCEPT !.Properties = <<pr>>] : pr \in TimeProps}
  /\ fieldIdx = 0
  /\ evtPC = "fields"
  /\ err = "nil"
  /\ NoParse
  /\ NoDuration

SpecTime == InitTime /\ [][NextEvt]_vars

\* the loop over evt.Properties has handled the property
Handled == fieldIdx = 1

TheProp == evt.Properties[1]

\* the field of the event the property is resolved into
TheTime == IF TheProp.Name = DTSTART THEN evt.Start ELSE evt.Timestamp

\* the zone of the first name that the zone database resolves, "none" if
\* there is none
RECURSIVE FirstResolved(_)
FirstResolved(tzids) ==
  IF tzids = <<>> THEN "none"
  ELSE IF LoadLocation(Head(tzids)) # "err" THEN LoadLocation(Head(tzids))
  ELSE FirstResolved(Tail(tzids))

\* C29: a value ending in Z resolves in UTC whatever Location and TZID are;
\* otherwise the Location given to the parser is the zone, whatever TZID is;
\* otherwise the first TZID value the zone database resolves; otherwise the
\* local zone
C29_ZonePriority ==
  (Handled /\ err = "nil") =>
    TheTime.loc =
      (IF TheProp.Value # <<>> /\ Last(TheProp.Value) = "Z" THEN "UTC"
       ELSE IF p.loc # "nil" THEN p.loc
       ELSE IF FirstResolved(ParamValues(TheProp.Params, TZID)) # "none"
       THEN FirstResolved(ParamValues(TheProp.Params, TZID))
       ELSE "Local")

\* without a Location, TZID=CET,UTC resolved as CET
C29_Witness ==
  /\ Handled /\ err = "nil"
  /\ p.loc = "nil"
  /\ ParamValues(TheProp.Params, TZID) = <<<<"C","E","T">>, <<"U","T","C">>>>
  /\ TheProp.Value = d20200131 \o t103020
  /\ TheTime = time_Date(2020, 1, 31, 10, 30, 20, "CET")

\* the layout the VALUE parameter names, the empty layout without one
LayoutOfVALUE(prop) ==
  LET values == ParamValues(prop.Params, VALUE)
  IN IF values = <<>> THEN <<>>
     ELSE IF Last(values) = DATE_TIME THEN layoutDateTimeLocal
     ELSE layoutDate

\* the layout of C30: that of VALUE, replaced by the layout of the value's
\* length when VALUE is absent or its layout has another length
LayoutOfClaim(prop) ==
  IF Len(LayoutOfVALUE(prop)) = Len(prop.Value) THEN LayoutOfVALUE(prop)
  ELSE CASE Len(prop.Value) = 8 -> layoutDate
         [] Len(prop.Value) = 15 -> layoutDateTimeLocal
         [] Len(prop.Value) = 16 -> layoutDateTimeUTC
         [] OTHER -> LayoutOfVALUE(prop)

\* C30: a value whose time of day is written in full is parsed with the
\* layout of its VALUE parameter, or with the layout of its length (8, 15,
\* 16) when VALUE is absent or names a layout of another length; so a
\* date-time under VALUE=DATE and a date under VALUE=DATE-TIME resolve
\* without error to the instant they denote
C30_LayoutFallback ==
  (Handled /\ shortTimeLayoutRE(TheProp.Value) = 0) =>
    /\ err = ParseInLocation(LayoutOfClaim(TheProp), TheProp.Value, "UTC").err
    /\ err = "nil" =>
         TheTime = ParseInLocation(LayoutOfClaim(TheProp), TheProp.Value, TheTime.loc).t
    /\ (TheProp.Value = d20200131 \o t103020 /\ Contains(TheProp.Params, VALUE, DATE)) =>
         err = "nil" /\ TheTime = time_Date(2020, 1, 31, 10, 30, 20, TheTime.loc)
    /\ (TheProp.Value = d20200131 /\ Contains(TheProp.Params, VALUE, DATE_TIME)) =>
         err = "nil" /\ TheTime = time_Date(2020, 1, 31, 0, 0, 0, TheTime.loc)

\* VALUE=DATE-TIME with the date 20200131 resolved to midnight of that day
C30_Witness ==
  /\ Handled /\ err = "nil"
  /\ TheProp.Value = d20200131
  /\ Contains(TheProp.Params, VALUE, DATE_TIME)
  /\ TheTime = time_Date(2020, 1, 31, 0, 0, 0, TheTime.loc)

(* ---------------------------------------------------------------------- *)
(* parseEvent on a DTSTART whose time of day has 3 to 5 digits (SpecShort) *)
(* ---------------------------------------------------------------------- *)
\* the digits the times of day are written with: they make hours below and
\* above 24, and minutes and seconds below and above 60
ShortDigits == {"0", "1", "2", "3", "5", "6", "8"}

\* the times of day of 3, 4 and 5 digits
ShortTimes ==
  {<<a, b, c>> : a \in ShortDigits, b \in ShortDigits, c \in ShortDigits}
  \cup {<<a, b>> \o <<c, d>> : a \in ShortDigits, b \in ShortDigits,
                               c \in ShortDigits, d \in ShortDigits}
  \cup {<<a, b>> \o <<c, d, e>> : a \in ShortDigits, b \in ShortDigits,
                                  c \in ShortDigits, d \in ShortDigits, e \in ShortDigits}

ShortValues ==
  {d20200131 \o <<"T">> \o tod \o z : tod \in ShortTimes, z \in {<<>>, <<"Z">>}}

InitShort ==
  /\ doc = <<>>
  /\ strict = FALSE
  /\ l = NewLexer(<<>>, FALSE)
  /\ state = "nil"
  /\ pending = <<>>
  /\ items = <<>>
  /\ closed = TRUE
  /\ ctxDone = FALSE
  /\ p = NewParser("nil", FALSE)
  /\ evt \in {[Event EXCEPT !.Properties = <<Property(DTSTART, NoParams, value)>>] :
                value \in ShortValues}
  /\ fieldIdx = 0
  /\ evtPC = "fields"
  /\ err = "nil"
  /\ NoParse
  /\ NoDuration

SpecShort == InitShort /\ [][NextEvt]_vars

\* the digits of the time of day of the DTSTART value
TimeOfDay == SelectSeq(DropN(TheProp.Value, 9), LAMBDA r : r # "Z")

\* the units of a time of day read greedily from the left: each unit of
\* limits takes two digits when they are a value below its limit and a
\* digit is left for every later unit, else one digit
RECURSIVE GreedyUnits(_, _)
GreedyUnits(digits, limits) ==
  IF limits = <<>> THEN <<>>
  ELSE IF Len(digits) - 2 >= Len(limits) - 1 /\ Atoi(SubSeq(digits, 1, 2)) < Head(limits)
  THEN <<Atoi(SubSeq(digits, 1, 2))>> \o GreedyUnits(DropN(digits, 2), Tail(limits))
  ELSE <<Atoi(SubSeq(digits, 1, 1))>> \o GreedyUnits(DropN(digits, 1), Tail(limits))

\* the instant of January 31st 2020 with the time of day <<hour, minute, second>>
StartAt(hms) == time_Date(2020, 1, 31, hms[1], hms[2], hms[3], evt.Start.loc)

\* C31: a time of day of 3 to 5 digits, with or without Z, resolves to the
\* hour, minute and second read greedily from the left, two digits for a
\* unit when they are a valid value (hour < 24, minute < 60, second < 60) and
\* enough digits remain for the later units, else one digit: 1358 is
\* 13:05:08, 3158 is 03:15:08, 12305 is 12:30:05 and Hms is 0H:0m:0s
C31_GreedyTime ==
  Handled =>
    /\ err = "nil"
    /\ evt.Start = StartAt(GreedyUnits(TimeOfDay, <<24, 60, 60>>))
    /\ evt.Start.loc = (IF Last(TheProp.Value) = "Z" THEN "UTC" ELSE "Local")
    /\ TimeOfDay = <<"1", "3", "5", "8">> => evt.Start = StartAt(<<13, 5, 8>>)
    /\ TimeOfDay = <<"3", "1", "5", "8">> => evt.Start = StartAt(<<3, 15, 8>>)
    /\ TimeOfDay = <<"1", "2", "3", "0", "5">> => evt.Start = StartAt(<<12, 30, 5>>)
    /\ Len(TimeOfDay) = 3 =>
         evt.Start = StartAt(<<Atoi(<<TimeOfDay[1]>>), Atoi(<<TimeOfDay[2]>>),
                               Atoi(<<TimeOfDay[3]>>)>>)

\* DTSTART:20200131T3158Z resolved to 03:15:08 UTC
C31_Witness ==
  /\ Handled /\ err = "nil"
  /\ TheProp.Value = d20200131 \o <<"T", "3", "1", "5", "8", "Z">>
  /\ evt.Start = time_Date(2020, 1, 31, 3, 15, 8, "UTC")

(* ---------------------------------------------------------------------- *)
(* ical.Parse with ical.Context(ctx): the lexer goroutine sends to the     *)
(* parser, both watch the same context (SpecPipe)                          *)
(* ---------------------------------------------------------------------- *)
CRLF == <<cr, lf>>

\* a calendar with a property, an event and an alarm
FullDoc ==
  beginVCalender \o CRLF \o VERSION \o <<":", "2">> \o CRLF
    \o beginVEvent \o CRLF
    \o DTSTART \o <<";">> \o VALUE \o <<"=">> \o DATE \o <<":">> \o d20200131 \o CRLF
    \o beginVAlarm \o CRLF \o ALARM_ACTION \o <<":", "x">> \o CRLF \o endVAlarm \o CRLF
    \o endVEvent \o CRLF \o endVCalendar \o CRLF

PipeDocs ==
  {FullDoc,
   beginVCalender \o <<lf>> \o endVCalendar \o <<lf>>,
   beginVCalender \o CRLF \o <<"A", ":", "x">>,
   beginVCalender \o CRLF \o <<"A", ":", BEL>> \o CRLF \o endVCalendar}

InitPipe ==
  /\ doc \in PipeDocs
  /\ strict = FALSE
  /\ l = NewLexer(doc, strict)
  /\ state = "lexContentLine"
  /\ pending = <<>>
  /\ items = <<>>
  /\ closed = FALSE
  /\ ctxDone = FALSE
  /\ NoEvent
  /\ par = Items(NewParser("nil", FALSE))
  /\ receiving = FALSE
  /\ rtPC = "idle"
  /\ first = [Items(NewParser("nil", FALSE)) EXCEPT !.at = "idle"]
  /\ encoded = <<>>
  /\ second = [Items(NewParser("nil", FALSE)) EXCEPT !.at = "idle"]
  /\ NoDuration

Parsing == par.at \notin {"idle", "done"}

\* p.next: <-p.ctx.Done()
ParserCtxDone ==
  /\ Parsing /\ ~receiving
  /\ ctxDone
  /\ par' = fail(par, ctxErr)
  /\ UNCHANGED <<lexVars, evtVars, receiving, rtVars, durVars>>

\* p.next with the check of the context only on the receiving path
ParserPop_NoCtxCheck ==
  /\ Parsing /\ ~receiving
  /\ par.p.peekCount > 0
  /\ par' = parser_pop(par)
  /\ UNCHANGED <<lexVars, evtVars, receiving, rtVars, durVars>>

\* p.next: the context is not done and an item is pushed back
ParserPop ==
  /\ Parsing /\ ~receiving
  /\ ~ctxDone
  /\ par.p.peekCount > 0
  /\ par' = parser_pop(par)
  /\ UNCHANGED <<lexVars, evtVars, receiving, rtVars, durVars>>

\* p.next: the context is not done and nothing is pushed back: p.nextItem()
ParserNextItem ==
  /\ Parsing /\ ~receiving
  /\ ~ctxDone
  /\ par.p.peekCount = 0
  /\ receiving' = TRUE
  /\ UNCHANGED <<lexVars, evtVars, par, rtVars, durVars>>

\* p.nextItem: the lexer goroutine hands over an item
ParserReceive ==
  /\ receiving
  /\ pending # <<>>
  /\ par' = parser_receive(par, Head(pending))
  /\ items' = Append(items, Head(pending))
  /\ pending' = Tail(pending)
  /\ receiving' = FALSE
  /\ UNCHANGED <<doc, strict, l, state, closed, ctxDone, evtVars, rtVars, durVars>>

\* p.nextItem: the channel is closed
ParserEndOfItems ==
  /\ receiving
  /\ pending = <<>>
  /\ closed
  /\ par' = fail(par, errEndOfItems)
  /\ receiving' = FALSE
  /\ UNCHANGED <<lexVars, evtVars, rtVars, durVars>>

\* the owner of the context cancels it while ical.Parse is running
CancelParse ==
  /\ Parsing
  /\ ~ctxDone
  /\ ctxDone' = TRUE
  /\ UNCHANGED <<doc, strict, l, state, pending, items, closed, evtVars, parVars, rtVars, durVars>>

ParserStep ==
  \/ ParserCtxDone
  \/ ParserPop
  \/ ParserNextItem
  \/ ParserReceive
  \/ ParserEndOfItems

NextPipe == LexStep \/ ParserStep \/ CancelParse

SpecPipe == InitPipe /\ [][NextPipe]_vars

(* ---------------------------------------------------------------------- *)
(* Claims about cancellation (SpecPipe)                                    *)
(* ---------------------------------------------------------------------- *)
\* without a cancellation the document lexes and parses without an error
WellFormed(text) == Slice(Reader(text, FALSE), "nil", FALSE).err = "nil"

\* C10: when the shared context is cancelled while a well-formed document is
\* parsed, the error ical.Parse returns is ctx.Err(), never an 'unexpected
\* item' error
C10_CancelError ==
  (par.at = "done" /\ par.err # "nil" /\ WellFormed(doc)) => par.err = ctxErr

MaxLines == 2

\* a line of 78 bytes whose 75th and 76th bytes are one rune
LongLine == <<"A", ":">> \o [i \in 1..72 |-> "x"] \o <<EACUTE, "y">>

RTLines ==
  {<<"A", ":", "x">>,
   <<"A", ";", "b", "=", "1", ",", "2", ";", "X", "=", "3", ":", "x">>,
   <<"B", "E", "G", "I", "N", ";", ":", "V", "E", "V", "E", "N", "T">>,
   LongLine,
   DTSTART \o <<";">> \o VALUE \o <<"=">> \o DATE \o <<":">> \o d20200131}

\* at most n lines, each ended by the line break b
RECURSIVE Bodies(_, _)
Bodies(n, b) ==
  IF n = 0 THEN {<<>>}
  ELSE LET shorter == Bodies(n - 1, b)
       IN shorter \cup {line \o b \o body : line \in RTLines, body \in shorter}

\* the lines as calendar properties, event properties or alarm properties
Wrapped(b, body) ==
  {beginVCalender \o b \o body \o endVCalendar \o b,
   beginVCalender \o b \o beginVEvent \o b \o body \o endVEvent \o b
     \o endVCalendar \o b,
   beginVCalender \o b \o beginVEvent \o b \o beginVAlarm \o b \o body
     \o endVAlarm \o b \o endVEvent \o b \o endVCalendar \o b}

RTDocs ==
  UNION {UNION {Wrapped(b, body) : body \in Bodies(MaxLines, b)} : b \in LineBreaks}

InitRT ==
  /\ doc \in RTDocs
  /\ strict \in BOOLEAN
  /\ l = NewLexer(<<>>, strict)
  /\ state = "nil"
  /\ pending = <<>>
  /\ items = <<>>
  /\ closed = TRUE
  /\ ctxDone = FALSE
  /\ NoEvent
  /\ par = [Items(NewParser("nil", FALSE)) EXCEPT !.at = "idle"]
  /\ receiving = FALSE
  /\ rtPC = "parse"
  /\ first = [Items(NewParser("nil", FALSE)) EXCEPT !.at = "idle"]
  /\ encoded = <<>>
  /\ second = [Items(NewParser("nil", FALSE)) EXCEPT !.at = "idle"]
  /\ NoDuration

\* ical.Parse(strings.NewReader(doc))
ParseDoc ==
  LET return(st) ==
        /\ first' = st
        /\ rtPC' = IF st.err = "nil" THEN "encode" ELSE "failed"
  IN /\ rtPC = "parse"
     /\ return(Slice(Reader(doc, strict), "nil", FALSE))
     /\ UNCHANGED <<lexVars, evtVars, parVars, durVars, encoded, second>>

\* ical.Encode(cal, &buf)
EncodeCalendar ==
  /\ rtPC = "encode"
  /\ \E visit \in IterationOrders(CalendarParamNames(first.p.cal)) :
       encoded' = Encoder_Encode(first.p.cal, visit)
  /\ rtPC' = "reparse"
  /\ UNCHANGED <<lexVars, evtVars, parVars, durVars, first, second>>

\* ical.Parse(&buf)
ParseEncoded ==
  /\ rtPC = "reparse"
  /\ second' = Slice(Reader(Runes(encoded), strict), "nil", FALSE)
  /\ rtPC' = "done"
  /\ UNCHANGED <<lexVars, evtVars, parVars, durVars, first, encoded>>

NextRT == ParseDoc \/ EncodeCalendar \/ ParseEncoded

SpecRT == InitRT /\ [][NextRT]_vars

(* ---------------------------------------------------------------------- *)
(* Claims about the round trip (SpecRT)                                    *)
(* ---------------------------------------------------------------------- *)
\* the raw Properties of a Calendar, of its events and of their alarms
RawProperties(c) ==
  [Properties |-> c.Properties,
   Events |-> [i \in 1..Len(c.Events) |->
                 [Properties |-> c.Events[i].Properties,
                  Alarms |-> [j \in 1..Len(c.Events[i].Alarms) |->
                                c.Events[i].Alarms[j].Properties]]]]

\* C1: a document that parses without error parses again after encoding, to
\* the same raw Properties of the calendar, its events and their alarms
C1_RoundTrip ==
  rtPC = "done" =>
    /\ second.err = "nil"
    /\ RawProperties(second.p.cal) = RawProperties(first.p.cal)

(* ---------------------------------------------------------------------- *)
(* parse.Slice on a sequence of items: the goroutine of Slice sends the    *)
(* items and closes the channel, the context is never cancelled            *)
(* (SpecParse)                                                             *)
(* ---------------------------------------------------------------------- *)
MaxUnits == 2

CALSCALE == <<"C","A","L","S","C","A","L","E">>

\* the items of a property without parameters
Line(name, value) == <<Item("Name", name), Item("Value", <<value>>)>>

\* the items of properties with parameters, or without a Value item
ShapedLines ==
  {<<Item("Name", <<"A">>), Item("ParamName", <<"b">>), Item("ParamValue", <<"1">>),
     Item("ParamValue", <<"2">>), Item("Value", <<"x">>)>>,
   <<Item("Name", <<"A">>), Item("ParamName", <<"b">>), Item("ParamValue", <<"1">>),
     Item("ParamName", <<"b">>), Item("ParamValue", <<"2">>), Item("Value", <<"x">>)>>,
   <<Item("Name", <<"A">>), Item("ParamName", <<"b">>), Item("ParamValue", <<"1">>),
     Item("ParamName", <<"c">>), Item("ParamValue", <<"2">>), Item("Value", <<"x">>)>>,
   <<Item("Name", <<"A">>)>>,
   <<Item("Name", <<"A">>), Item("ParamName", <<"b">>), Item("ParamValue", <<"1">>)>>}

CalLines ==
  {Line(VERSION, "1"), Line(VERSION, "2"), Line(METHOD, "m"), Line(PRODID, "p"),
   Line(CALSCALE, "X"), Line(UID, "u")} \cup ShapedLines

EventLines ==
  {Line(UID, "u"), Line(UID, "v"), Line(SUMMARY, "s"), Line(DESCRIPTION, "d"),
   Line(VERSION, "1")} \cup ShapedLines

AlarmLines ==
  {Line(ALARM_ACTION, "a"), Line(ALARM_ACTION, "b"), Line(TRIGGER, "t"), Line(UID, "u")}

\* the concatenations of at most n of the units
RECURSIVE Concats(_, _)
Concats(n, units) ==
  IF n = 0 THEN {<<>>}
  ELSE LET shorter == Concats(n - 1, units)
       IN shorter \cup {u \o rest : u \in units, rest \in shorter}

AlarmItems ==
  {<<Item("AlarmBegin", beginVAlarm)>> \o body \o <<Item("AlarmEnd", endVAlarm)>> :
     body \in Concats(MaxUnits, AlarmLines)}

EventItems ==
  {<<Item("EventBegin", beginVEvent)>> \o body \o <<Item("EventEnd", endVEvent)>> :
     body \in Concats(MaxUnits, EventLines \cup AlarmItems)}

\* an event and an alarm to stand directly in the calendar
CalUnits ==
  CalLines
    \cup {<<Item("EventBegin", beginVEvent)>> \o Line(VERSION, "3")
            \o <<Item("EventEnd", endVEvent)>>,
          <<Item("AlarmBegin", beginVAlarm)>> \o Line(ALARM_ACTION, "a")
            \o Line(TRIGGER, "t") \o <<Item("AlarmEnd", endVAlarm)>>}

\* calendars of properties, calendars of one event, and two sequences that
\* end before END:VCALENDAR
ParseInputs ==
  {<<Item("CalendarBegin", beginVCalender)>> \o body
     \o <<Item("CalendarEnd", endVCalendar)>> :
     body \in Concats(MaxUnits, CalUnits) \cup EventItems}
    \cup {<<Item("CalendarBegin", beginVCalender)>>,
          <<Item("CalendarBegin", beginVCalender)>> \o Line(VERSION, "1")}

InitParse ==
  /\ doc = <<>>
  /\ strict = FALSE
  /\ l = NewLexer(<<>>, FALSE)
  /\ state = "nil"
  /\ pending \in ParseInputs
  /\ items = <<>>
  /\ closed = TRUE
  /\ ctxDone = FALSE
  /\ NoEvent
  /\ par = Items(NewParser("nil", FALSE))
  /\ receiving = FALSE
  /\ rtPC = "idle"
  /\ first = [Items(NewParser("nil", FALSE)) EXCEPT !.at = "idle"]
  /\ encoded = <<>>
  /\ second = [Items(NewParser("nil", FALSE)) EXCEPT !.at = "idle"]
  /\ NoDuration

NextParse == ParserPop \/ ParserNextItem \/ ParserReceive \/ ParserEndOfItems

SpecParse == InitParse /\ [][NextParse]_vars

(* ---------------------------------------------------------------------- *)
(* Claims about the document tree (SpecParse).  items are the items the    *)
(* parser has received; what a claim expects is read from them.            *)
(* ---------------------------------------------------------------------- *)
ParsedOK == par.at = "done" /\ par.err = "nil"

\* the i-th item stands between BEGIN:VALARM and END:VALARM
InAlarm(toks, i) ==
  \E j \in 1..(i - 1) :
    toks[j].Type = "AlarmBegin" /\ \A k \in j..i : toks[k].Type # "AlarmEnd"

\* the i-th item stands between BEGIN:VEVENT and END:VEVENT
InEvent(toks, i) ==
  \E j \in 1..(i - 1) :
    toks[j].Type = "EventBegin" /\ \A k \in j..i : toks[k].Type # "EventEnd"

\* the number of the event the i-th item stands in, 0 outside every event
EventNo(toks, i) ==
  IF InEvent(toks, i)
  THEN Cardinality({j \in 1..i : toks[j].Type = "EventBegin"})
  ELSE 0

\* the number of the alarm, within its event or within the calendar, the
\* i-th item stands in, 0 outside every alarm
AlarmNo(toks, i) ==
  IF InAlarm(toks, i)
  THEN Cardinality({j \in 1..i : /\ toks[j].Type = "AlarmBegin"
                                /\ EventNo(toks, j) = EventNo(toks, i)})
  ELSE 0

\* the positions of the Name items of event e's alarm a (e = 0: the
\* calendar, a = 0: the event or calendar itself), in document order
OwnNames(toks, e, a) ==
  SelectSeq([i \in 1..Len(toks) |-> i],
            LAMBDA i : /\ toks[i].Type = "Name"
                       /\ EventNo(toks, i) = e
                       /\ AlarmNo(toks, i) = a)

\* the last item of the property whose Name item is the i-th item
LineEnd(toks, i) ==
  CHOOSE j \in i..Len(toks) :
    /\ \A k \in (i + 1)..j : toks[k].Type \in {"ParamName", "ParamValue", "Value"}
    /\ (j < Len(toks) => toks[j + 1].Type \notin {"ParamName", "ParamValue", "Value"})

\* the value of the property: its Value item, the empty string without one
LineValue(toks, i) ==
  LET vals == {k \in i..LineEnd(toks, i) : toks[k].Type = "Value"}
  IN IF vals = {} THEN <<>> ELSE toks[CHOOSE k \in vals : TRUE].Value

\* the ParamName item that governs the ParamValue item at k
Governor(toks, k) ==
  CHOOSE j \in 1..k :
    toks[j].Type = "ParamName" /\ \A m \in (j + 1)..k : toks[m].Type = "ParamValue"

\* every ParamValue item of the property under its parameter name, in order
LineParams(toks, i) ==
  LET pnames == {toks[k].Value : k \in {m \in i..LineEnd(toks, i) : toks[m].Type = "ParamName"}}
      under(n) ==
        SelectSeq([k \in 1..LineEnd(toks, i) |-> k],
                  LAMBDA k : /\ k > i
                             /\ toks[k].Type = "ParamValue"
                             /\ toks[Governor(toks, k)].Value = n)
  IN [n \in pnames |-> [x \in 1..Len(under(n)) |-> toks[under(n)[x]].Value]]

\* name and value of every property in the list
NamesAndValues(props) == [i \in 1..Len(props) |-> <<props[i].Name, props[i].Value>>]

\* name and value of the properties the items give to an entity
OwnNamesAndValues(toks, e, a) ==
  LET at == OwnNames(toks, e, a)
  IN [x \in 1..Len(at) |-> <<toks[at[x]].Value, LineValue(toks, at[x])>>]

\* the properties the items give to an entity, with every parameter value
OwnProperties(toks, e, a) ==
  LET at == OwnNames(toks, e, a)
  IN [x \in 1..Len(at) |->
        Property(toks[at[x]].Value, LineParams(toks, at[x]), LineValue(toks, at[x]))]

\* the value of the last property with the name, or the default
LastOf(props, name, default) ==
  LET named == SelectSeq(props, LAMBDA q : q.Name = name)
  IN IF named = <<>> THEN default ELSE named[Len(named)].Value

\* C13: a top-level alarm is accepted: reading BEGIN:VALARM directly inside
\* the calendar does not end the parse with an error
C13_TopLevelAlarm ==
  (/\ items # <<>> /\ ~receiving
   /\ Last(items).Type = "AlarmBegin"
   /\ ~InEvent(items, Len(items))) => par.err = "nil"

\* the alarms of event e in the items
AlarmsIn(toks, e) ==
  Cardinality({i \in 1..Len(toks) : toks[i].Type = "AlarmBegin" /\ EventNo(toks, i) = e})

EventsIn(toks) == Cardinality({i \in 1..Len(toks) : toks[i].Type = "EventBegin"})

\* C14: a parsed event has one alarm for every BEGIN:VALARM inside it, in
\* document order; an alarm holds the properties between its markers, with
\* Action and Trigger the values of its last ACTION and TRIGGER; the event
\* holds the properties outside the alarms, those after an alarm included
C14_NestedAlarms ==
  ParsedOK =>
    \A e \in 1..Len(par.p.cal.Events) :
      LET event == par.p.cal.Events[e]
      IN /\ Len(event.Alarms) = AlarmsIn(items, e)
         /\ NamesAndValues(event.Properties) = OwnNamesAndValues(items, e, 0)
         /\ \A a \in 1..Len(event.Alarms) :
              /\ NamesAndValues(event.Alarms[a].Properties) = OwnNamesAndValues(items, e, a)
              /\ event.Alarms[a].Action = LastOf(event.Alarms[a].Properties, ALARM_ACTION, <<>>)
              /\ event.Alarms[a].Trigger = LastOf(event.Alarms[a].Properties, TRIGGER, <<>>)

\* an event with the alarms ACTION:a and ACTION:b TRIGGER:t was parsed
C14_Witness ==
  /\ ParsedOK
  /\ Len(par.p.cal.Events) = 1
  /\ par.p.cal.Events[1].Properties = <<>>
  /\ Len(par.p.cal.Events[1].Alarms) = 2
  /\ par.p.cal.Events[1].Alarms[1] =
       [Properties |-> <<Property(ALARM_ACTION, <<>>, <<"a">>)>>,
        Action |-> <<"a">>, Trigger |-> <<>>]
  /\ par.p.cal.Events[1].Alarms[2] =
       [Properties |-> <<Property(ALARM_ACTION, <<>>, <<"b">>),
                         Property(TRIGGER, <<>>, <<"t">>)>>,
        Action |-> <<"b">>, Trigger |-> <<"t">>]

\* an alarm with ACTION:a and ACTION:b, followed by UID:u of the event
C14_AfterAlarm ==
  /\ ParsedOK
  /\ Len(par.p.cal.Events) = 1
  /\ par.p.cal.Events[1].Properties = <<Property(UID, <<>>, <<"u">>)>>
  /\ Len(par.p.cal.Events[1].Alarms) = 1
  /\ par.p.cal.Events[1].Alarms[1].Action = <<"b">>
  /\ items[Len(items) - 4].Type = "AlarmEnd"

\* C17: after a successful parse every entity holds one Property for each of
\* its Name items, in document order, with every ParamValue item under the
\* name of its ParamName item
C17_RawCapture ==
  ParsedOK =>
    /\ par.p.cal.Properties = OwnProperties(items, 0, 0)
    /\ Len(par.p.cal.Events) = EventsIn(items)
    /\ \A e \in 1..Len(par.p.cal.Events) :
         /\ par.p.cal.Events[e].Properties = OwnProperties(items, e, 0)
         /\ \A a \in 1..Len(par.p.cal.Events[e].Alarms) :
              par.p.cal.Events[e].Alarms[a].Properties = OwnProperties(items, e, a)

\* a property of the items names a parameter twice
RepeatsParam(toks) ==
  \E i, j \in 1..Len(toks) :
    /\ i < j
    /\ toks[i].Type = "ParamName" /\ toks[j].Type = "ParamName"
    /\ toks[i].Value = toks[j].Value
    /\ \A k \in i..j : toks[k].Type \in {"ParamName", "ParamValue"}

\* C18: the scalar fields of a parsed calendar, event and alarm are the
\* values of the last property of their name among the entity's own
\* properties, empty without one; the own properties are those of the
\* entity's Name items, never those of a nested event or alarm
C18_ScalarFields ==
  ParsedOK =>
    LET c == par.p.cal
    IN /\ NamesAndValues(c.Properties) = OwnNamesAndValues(items, 0, 0)
       /\ c.Version = LastOf(c.Properties, VERSION, <<>>)
       /\ c.Method = LastOf(c.Properties, METHOD, <<>>)
       /\ c.ProductID = LastOf(c.Properties, PRODID, <<>>)
       /\ \A e \in 1..Len(c.Events) :
            /\ NamesAndValues(c.Events[e].Properties) = OwnNamesAndValues(items, e, 0)
            /\ c.Events[e].UID = LastOf(c.Events[e].Properties, UID, <<>>)
            /\ c.Events[e].Summary = LastOf(c.Events[e].Properties, SUMMARY, <<>>)
            /\ c.Events[e].Description = LastOf(c.Events[e].Properties, DESCRIPTION, <<>>)
            /\ \A a \in 1..Len(c.Events[e].Alarms) :
                 LET alarm == c.Events[e].Alarms[a]
                 IN /\ NamesAndValues(alarm.Properties) = OwnNamesAndValues(items, e, a)
                    /\ alarm.Action = LastOf(alarm.Properties, ALARM_ACTION, <<>>)
                    /\ alarm.Trigger = LastOf(alarm.Properties, TRIGGER, <<>>)

\* VERSION:1 and VERSION:2 in the calendar: Version is 2, the other fields
\* are empty
C18_Witness ==
  /\ ParsedOK
  /\ NamesAndValues(par.p.cal.Properties) = <<<<VERSION, <<"1">>>>, <<VERSION, <<"2">>>>>>
  /\ par.p.cal.Version = <<"2">>
  /\ par.p.cal.Method = <<>>
  /\ par.p.cal.ProductID = <<>>

\* C19: Calscale of a parsed calendar is the value of its last CALSCALE
\* property, GREGORIAN without one
C19_Calscale ==
  ParsedOK => par.p.cal.Calscale = LastOf(par.p.cal.Properties, CALSCALE, GREGORIAN)

\* the items that may follow a property of the entity the i-th item stands in
MayFollow(toks, i) ==
  IF InAlarm(toks, i) THEN {"Name", "AlarmEnd"}
  ELSE IF InEvent(toks, i) THEN {"Name", "AlarmBegin", "EventEnd"}
  ELSE {"Name", "EventBegin", "CalendarEnd"}

\* C20: a property without a Value item is accepted: the item that follows
\* its name or its last parameter value does not end the parse with an
\* error, and a successful parse records the property with the empty value
C20_MissingValue ==
  /\ (/\ Len(items) >= 2 /\ ~receiving
      /\ items[Len(items) - 1].Type \in {"Name", "ParamValue"}
      /\ Last(items).Type \in MayFollow(items, Len(items) - 1)) => par.err = "nil"
  /\ ParsedOK => NamesAndValues(par.p.cal.Properties) = OwnNamesAndValues(items, 0, 0)

(* ---------------------------------------------------------------------- *)
(* parse.Slice on sequences of BEGIN and END items in any order (SpecNest) *)
(* ---------------------------------------------------------------------- *)
MaxNest == 5

\* the six markers, the EOF item and one property
NestUnits ==
  {<<Item(markers[i][2], markers[i][1])>> : i \in 1..Len(markers)}
    \cup {<<Item("EOF", <<>>)>>, Line(VERSION, "1")}

\* nothing at all, a first item that is not BEGIN:VCALENDAR, and
\* BEGIN:VCALENDAR followed by at most MaxNest units in any order
NestInputs ==
  {<<>>}
    \cup {u \o rest : u \in NestUnits \ {<<Item("CalendarBegin", beginVCalender)>>},
                      rest \in {<<>>, <<Item("CalendarBegin", beginVCalender),
                                        Item("CalendarEnd", endVCalendar)>>}}
    \cup {<<Item("CalendarBegin", beginVCalender)>> \o body :
            body \in Concats(MaxNest, NestUnits)}

InitNest ==
  /\ doc = <<>>
  /\ strict = FALSE
  /\ l = NewLexer(<<>>, FALSE)
  /\ state = "nil"
  /\ pending \in NestInputs
  /\ items = <<>>
  /\ closed = TRUE
  /\ ctxDone = FALSE
  /\ NoEvent
  /\ par = Items(NewParser("nil", FALSE))
  /\ receiving = FALSE
  /\ rtPC = "idle"
  /\ first = [Items(NewParser("nil", FALSE)) EXCEPT !.at = "idle"]
  /\ encoded = <<>>
  /\ second = [Items(NewParser("nil", FALSE)) EXCEPT !.at = "idle"]
  /\ NoDuration

SpecNest == InitNest /\ [][NextParse]_vars

\* the items from the i-th on continue a properly nested calendar: inside
\* "out" comes BEGIN:VCALENDAR, inside "cal" properties, events and
\* END:VCALENDAR, inside "evt" properties, alarms and END:VEVENT, inside
\* "alarm" properties and END:VALARM; the items end after END:VCALENDAR
RECURSIVE Nested(_, _, _)
Nested(toks, i, inside) ==
  IF i > Len(toks) THEN FALSE
  ELSE LET t == toks[i].Type
       IN CASE t \in {"Name", "ParamName", "ParamValue", "Value"} ->
                 inside # "out" /\ Nested(toks, i + 1, inside)
            [] inside = "out" -> t = "CalendarBegin" /\ Nested(toks, i + 1, "cal")
            [] inside = "cal" ->
                 \/ t = "CalendarEnd"
                 \/ t = "EventBegin" /\ Nested(toks, i + 1, "evt")
            [] inside = "evt" ->
                 \/ t = "EventEnd" /\ Nested(toks, i + 1, "cal")
                 \/ t = "AlarmBegin" /\ Nested(toks, i + 1, "alarm")
            [] inside = "alarm" -> t = "AlarmEnd" /\ Nested(toks, i + 1, "evt")

\* the items the channel delivers before it is closed
Delivered == items \o pending

\* C23: when the BEGIN and END items are not nested and matched as calendar,
\* event, alarm up to the calendar's END:VCALENDAR, parse.Items returns a
\* non-nil error
C23_NestingError ==
  (par.at = "done" /\ ~Nested(Delivered, 1, "out")) => par.err # "nil"

\* the parse ended with an error at an END:VEVENT inside an alarm
C23_Witness ==
  /\ par.at = "done" /\ par.err # "nil"
  /\ ~Nested(Delivered, 1, "out")
  /\ Len(items) = 4
  /\ [i \in 1..4 |-> items[i].Type] = <<"CalendarBegin", "EventBegin", "AlarmBegin", "EventEnd">>

\* C24: when the parse fails after calendar properties were read, the
\* Calendar returned with the error holds those properties
C24_PartialCalendar ==
  (par.at = "done" /\ par.err # "nil" /\ items # <<>>
   /\ Last(items).Type \notin {"Name", "ParamName", "ParamValue"}) =>
    NamesAndValues(par.p.cal.Properties) = OwnNamesAndValues(items, 0, 0)

(* ---------------------------------------------------------------------- *)
(* encode.Calendar on a Calendar value that the caller has built (SpecEnc):*)
(* first.p.cal is the Calendar handed to the Encoder                       *)
(* ---------------------------------------------------------------------- *)
MaxEncProps == 2

\* the property A with a value of n times x followed by tail
Filled(n, tail) == Property(<<"A">>, <<>>, [i \in 1..n |-> "x"] \o tail)

\* lines of 3 bytes, with two and three parameters, of 75, 76 and 78 bytes
\* (a two-byte rune on bytes 75 and 76; a space on byte 76), of 150 bytes,
\* and of 155 bytes with a two-byte rune across byte 150
EncProps ==
  {Property(<<"A">>, <<>>, <<"x">>),
   Property(<<"A">>, (<<"b">> :> <<<<"1">>, <<"2">>>>) @@ (<<"X">> :> <<<<"3">>>>), <<"x">>),
   Property(<<"A">>,
            (<<"b">> :> <<<<"1">>>>) @@ (<<"b", "a">> :> <<<<"2">>, <<"1">>>>)
              @@ (<<"X">> :> <<<<"3", "3">>>>),
            <<"x">>),
   Filled(73, <<>>),
   Filled(74, <<>>),
   Filled(72, <<EACUTE, "y">>),
   Filled(73, <<SP, "y">>),
   Filled(148, <<>>),
   Filled(72, <<EACUTE>> \o [i \in 1..73 |-> "x"] \o <<EACUTE, "y", "y", "y">>)}

EncAlarm ==
  [Alarm EXCEPT !.Properties = <<Property(ALARM_ACTION, <<>>, <<"a">>)>>,
                !.Action = <<"b">>, !.Trigger = <<"t">>]

\* events whose derived fields are set without the properties they come from
EncEvents ==
  {[Event EXCEPT !.UID = <<"u">>, !.Summary = <<"s">>, !.Description = <<"d">>,
                 !.Start = time_Date(2020, 1, 31, 10, 30, 20, "UTC"),
                 !.End = time_Date(2020, 2, 1, 0, 0, 0, "UTC"),
                 !.Timestamp = time_Date(2020, 1, 1, 0, 0, 0, "UTC")],
   [Event EXCEPT !.Properties = <<Property(UID, <<>>, <<"v">>)>>, !.UID = <<"u">>,
                 !.Alarms = <<EncAlarm>>],
   [Event EXCEPT !.Properties = <<Property(<<"A">>, (<<"b">> :> <<<<"1">>>>), <<"x">>)>>,
                 !.Alarms = <<EncAlarm, [EncAlarm EXCEPT !.Properties = <<>>]>>]}

EncEventLists ==
  {<<>>} \cup {<<e>> : e \in EncEvents} \cup {<<e1, e2>> : e1 \in EncEvents, e2 \in EncEvents}

\* calendars with and without derived fields
EncCalendars ==
  {[c EXCEPT !.Properties = props, !.Events = events] :
     c \in {Calendar,
            [Calendar EXCEPT !.Version = <<"2">>, !.Method = <<"m">>,
                             !.ProductID = <<"p">>, !.Calscale = GREGORIAN]},
     props \in Concats(MaxEncProps, {<<pr>> : pr \in EncProps}),
     events \in EncEventLists}

InitEnc ==
  /\ doc = <<>>
  /\ strict = FALSE
  /\ l = NewLexer(<<>>, FALSE)
  /\ state = "nil"
  /\ pending = <<>>
  /\ items = <<>>
  /\ closed = TRUE
  /\ ctxDone = FALSE
  /\ NoEvent
  /\ par = [Items(NewParser("nil", FALSE)) EXCEPT !.at = "idle"]
  /\ receiving = FALSE
  /\ rtPC = "encode"
  /\ \E c \in EncCalendars :
       first = [Items(NewParser("nil", FALSE)) EXCEPT !.at = "idle", !.p.cal = c]
  /\ encoded = <<>>
  /\ second = [Items(NewParser("nil", FALSE)) EXCEPT !.at = "idle"]
  /\ NoDuration

NextEnc == EncodeCalendar

SpecEnc == InitEnc /\ [][NextEnc]_vars

(* ---------------------------------------------------------------------- *)
(* Claims about the encoder (SpecEnc)                                      *)
(* ---------------------------------------------------------------------- *)
Encoded == rtPC = "reparse"

\* the names in ascending order
Ascending(names) ==
  CHOOSE order \in IterationOrders(names) :
    \A i \in 1..Len(order) : \A j \in (i + 1)..Len(order) : StringLess(order[i], order[j])

\* the logical line of a property: the name, the parameters by ascending
\* name, each with its values in their order, a colon and the value
LogicalLine(prop) ==
  LET names == Ascending(DOMAIN prop.Params)
      values(n) == Join(prop.Params[n], <<",">>)
      upTo(k) == [i \in 1..k |-> <<";">> \o names[i] \o <<"=">> \o values(names[i])]
  IN prop.Name \o Join(upTo(Len(names)), <<>>) \o <<":">> \o prop.Value

LogicalLines(props) == [i \in 1..Len(props) |-> LogicalLine(props[i])]

RECURSIVE LinesOfAlarms(_)
LinesOfAlarms(alarms) ==
  IF alarms = <<>> THEN <<>>
  ELSE <<beginVAlarm>> \o LogicalLines(Head(alarms).Properties) \o <<endVAlarm>>
         \o LinesOfAlarms(Tail(alarms))

RECURSIVE LinesOfEvents(_)
LinesOfEvents(events) ==
  IF events = <<>> THEN <<>>
  ELSE <<beginVEvent>> \o LogicalLines(Head(events).Properties)
         \o LinesOfAlarms(Head(events).Alarms) \o <<endVEvent>>
         \o LinesOfEvents(Tail(events))

\* the logical lines of the document for a Calendar, from its raw properties
LinesOfCalendar(cal) ==
  <<beginVCalender>> \o LogicalLines(cal.Properties) \o LinesOfEvents(cal.Events)
    \o <<endVCalendar>>

\* the positions of the text where CR LF SP starts
FoldsAt(text) ==
  {i \in 1..(Len(text) - 2) : SubSeq(text, i, i + 2) = <<cr, lf, SP>>}

\* the text without every CR LF SP
WithoutFolds(text) ==
  LET folds == FoldsAt(text)
      kept == SelectSeq([i \in 1..Len(text) |-> i],
                        LAMBDA i : {i - 2, i - 1, i} \cap folds = {})
  IN [k \in 1..Len(kept) |-> text[kept[k]]]

\* the lines of the text: what stands before, between and after its CR LF
SplitLines(text) ==
  LET breaks == SelectSeq([i \in 1..(Len(text) - 1) |-> i],
                          LAMBDA i : text[i] = cr /\ text[i + 1] = lf)
      from(k) == IF k = 1 THEN 1 ELSE breaks[k - 1] + 2
      to(k) == IF k > Len(breaks) THEN Len(text) ELSE breaks[k] - 1
  IN [k \in 1..(Len(breaks) + 1) |-> SubSeq(text, from(k), to(k))]

\* C25: the output is BEGIN:VCALENDAR, the calendar's properties, every
\* event as BEGIN:VEVENT, its properties, its alarms (BEGIN:VALARM, the
\* properties, END:VALARM), END:VEVENT, and END:VCALENDAR, in this order,
\* with CRLF between two lines and nothing before, between or after them;
\* the derived fields give no line
C25_LineSequence ==
  Encoded => SplitLines(WithoutFolds(Runes(encoded))) = LinesOfCalendar(first.p.cal)

\* a calendar with derived fields, a property and two events, the second
\* with a property and an alarm, was encoded
C25_Witness ==
  /\ Encoded
  /\ first.p.cal.Version # <<>>
  /\ Len(first.p.cal.Properties) = 1
  /\ Len(first.p.cal.Events) = 2
  /\ first.p.cal.Events[1].Properties = <<>> /\ first.p.cal.Events[1].UID # <<>>
  /\ first.p.cal.Events[2].Properties # <<>> /\ first.p.cal.Events[2].Alarms # <<>>
  /\ first.p.cal.Events[2].Alarms[1].Action = <<"b">>

\* C26: every encoding the Encoder can produce for the Calendar, whatever
\* the iteration order of the Params maps, is the same bytes, and the line of
\* each calendar property is its name, its parameters by ascending name with
\* their values joined by commas in their order, a colon and the value
C26_ParamOrder ==
  Encoded =>
    /\ \A visit \in IterationOrders(CalendarParamNames(first.p.cal)) :
         encoded = Encoder_Encode(first.p.cal, visit)
    /\ \A i \in 1..Len(first.p.cal.Properties) :
         SplitLines(WithoutFolds(Runes(encoded)))[i + 1] =
           LogicalLine(first.p.cal.Properties[i])

\* a property with the parameters b, ba and X was encoded with X first
C26_Witness ==
  /\ Encoded
  /\ Len(first.p.cal.Properties) = 2
  /\ DOMAIN first.p.cal.Properties[2].Params = {<<"b">>, <<"b", "a">>, <<"X">>}
  /\ SplitLines(Runes(encoded))[3] =
       <<"A", ";", "X", "=", "3", "3", ";", "b", "=", "1", ";", "b", "a", "=", "2", ",", "1",
         ":", "x">>

\* the bytes of the logical lines, CRLF between them
LogicalBytes(cal) == Bytes(Join(LinesOfCalendar(cal), <<cr, lf>>))

\* a line of the calendar is longer than foldWidth bytes
HasLongLine(cal) ==
  \E i \in 1..Len(LinesOfCalendar(cal)) : ByteLen(LinesOfCalendar(cal)[i]) > foldWidth

\* the values of the Value items of a stream
ValuesOf(its) ==
  LET vals == SelectSeq(its, LAMBDA it : it.Type = "Value")
  IN [i \in 1..Len(vals) |-> vals[i].Value]

\* the values of the properties of the calendar (events are not looked at)
ValuesIn(cal) == [i \in 1..Len(cal.Properties) |-> cal.Properties[i].Value]

\* C27: when a line is longer than 75 bytes the output has a CR LF SP; no
\* CR LF SP stands before the second byte of a rune; the output without
\* every CR LF SP is the bytes of the logical lines; and the lexer reads the
\* values of the folded lines back unchanged (lexed for calendars without
\* events whose lines are shorter than two fold widths)
C27_FoldOnBoundary ==
  (Encoded /\ HasLongLine(first.p.cal)) =>
    /\ FoldsAt(encoded) # {}
    /\ \A i \in FoldsAt(encoded) : i + 3 <= Len(encoded) /\ encoded[i + 3] # utf8cont
    /\ WithoutFolds(encoded) = LogicalBytes(first.p.cal)
    /\ (/\ first.p.cal.Events = <<>>
        /\ \A i \in 1..Len(LinesOfCalendar(first.p.cal)) :
             ByteLen(LinesOfCalendar(first.p.cal)[i]) < 2 * foldWidth) =>
         ValuesOf(Reader(Runes(encoded), FALSE)) = ValuesIn(first.p.cal)

\* the line of 78 bytes whose bytes 75 and 76 are one rune was folded
\* before that rune
C27_Witness ==
  /\ Encoded
  /\ first.p.cal.Properties = <<Filled(72, <<EACUTE, "y">>)>>
  /\ first.p.cal.Events = <<>>
  /\ FoldsAt(encoded) = {Len(beginVCalender) + 2 + 74 + 1}
  /\ SubSeq(encoded, Len(beginVCalender) + 2 + 74 + 1, Len(beginVCalender) + 2 + 74 + 5)
       = <<cr, lf, SP, EACUTE, utf8cont>>

\* C28: every physical line of the output, a continuation line with its
\* leading space included, is at most 75 bytes long without its CRLF
C28_PhysicalLines ==
  Encoded =>
    \A k \in 1..Len(SplitLines(encoded)) : Len(SplitLines(encoded)[k]) <= foldWidth

(* ---------------------------------------------------------------------- *)
(* parseDuration on a string (SpecDur)                                     *)
(* ---------------------------------------------------------------------- *)
MaxTerms == 2

\* 15251 weeks are more than MaxInt64 nanoseconds, twenty nines are more
\* than MaxInt64
DurNumbers ==
  {<<"0">>, <<"2">>, <<"1","0">>, <<"1","5","2","5","1">>, [i \in 1..20 |-> "9"]}

TimeTerms == {n \o <<u>> : n \in DurNumbers, u \in {"H", "M", "S"}}

\* one to MaxTerms terms nH, nM, nS
TimeParts == Concats(MaxTerms, TimeTerms) \ {<<>>}

\* PnW, PnD, PnDT<time> and PT<time>
DurForms ==
  {<<"P">> \o n \o <<"W">> : n \in DurNumbers}
    \cup {<<"P">> \o n \o <<"D">> : n \in DurNumbers}
    \cup {<<"P">> \o n \o <<"D", "T">> \o t : n \in DurNumbers, t \in TimeParts}
    \cup {<<"P", "T">> \o t : t \in TimeParts}

\* the duration of TestItems_event, and strings that are no durations
OtherDurations ==
  {<<"P","2","W","4","D","5","H","2","M","1","0","S">>,
   <<"P","2","W","4","D">>, <<>>, <<"P">>, <<"P","T">>, <<"P","2">>, <<"P","2","X">>,
   <<"P","2","D","X">>, <<"P","T","2","X">>, <<"P","T","2">>, <<"X">>}

DurInputs ==
  {sign \o b : sign \in {<<>>, <<"+">>, <<"-">>}, b \in DurForms \cup OtherDurations}

InitDur ==
  /\ doc = <<>>
  /\ strict = FALSE
  /\ l = NewLexer(<<>>, FALSE)
  /\ state = "nil"
  /\ pending = <<>>
  /\ items = <<>>
  /\ closed = TRUE
  /\ ctxDone = FALSE
  /\ NoEvent
  /\ NoParse
  /\ raw \in DurInputs
  /\ duration = ZeroDuration
  /\ durErr = "nil"
  /\ durPC = "call"

\* dur, err := parseDuration(raw)
ParseDuration ==
  LET return(r) ==
        /\ duration' = r.dur
        /\ durErr' = r.err
  IN /\ durPC = "call"
     /\ return(parseDuration(raw))
     /\ durPC' = "done"
     /\ UNCHANGED <<raw, lexVars, evtVars, parVars, rtVars>>

NextDur == ParseDuration

SpecDur == InitDur /\ [][NextDur]_vars

(* ---------------------------------------------------------------------- *)
(* Claims about durations (SpecDur).  What a claim expects is computed     *)
(* in days and seconds, without the limits of an int64.                    *)
(* ---------------------------------------------------------------------- *)
Unsigned(s) == IF s # <<>> /\ s[1] \in {"+", "-"} THEN Tail(s) ELSE s

IsNegative(s) == s # <<>> /\ s[1] = "-"

\* the number of digits s begins with
NumLen(s) ==
  CHOOSE n \in 0..Len(s) :
    /\ \A i \in 1..n : s[i] \in Digits
    /\ (n < Len(s) => s[n + 1] \notin Digits)

\* s is one or more of nH, nM, nS
RECURSIVE IsTimePart(_)
IsTimePart(s) ==
  /\ NumLen(s) >= 1
  /\ NumLen(s) < Len(s)
  /\ s[NumLen(s) + 1] \in {"H", "M", "S"}
  /\ (Len(s) > NumLen(s) + 1 => IsTimePart(DropN(s, NumLen(s) + 1)))

\* s is n followed by the unit and by nothing else
IsTerm(s, u) == NumLen(s) >= 1 /\ Len(s) = NumLen(s) + 1 /\ s[Len(s)] = u

\* s is PnW, PnD, PnDT<time> or PT<time>
IsDurForm(s) ==
  /\ Len(s) >= 3
  /\ s[1] = "P"
  /\ \/ IsTerm(Tail(s), "W")
     \/ IsTerm(Tail(s), "D")
     \/ /\ s[2] = "T"
        /\ IsTimePart(DropN(s, 2))
     \/ /\ NumLen(Tail(s)) >= 1
        /\ Len(s) > NumLen(Tail(s)) + 3
        /\ s[NumLen(Tail(s)) + 2] = "D"
        /\ s[NumLen(Tail(s)) + 3] = "T"
        /\ IsTimePart(DropN(s, NumLen(Tail(s)) + 3))

\* n weeks, days, hours, minutes or seconds
TermValue(n, u) ==
  CASE u = "W" -> Duration(7 * n, 0, 0)
    [] u = "D" -> Duration(n, 0, 0)
    [] u = "H" -> Duration(n \div 24, (n % 24) * 3600, 0)
    [] u = "M" -> Duration(n \div 1440, (n % 1440) * 60, 0)
    [] u = "S" -> Duration(0, n, 0)

\* the sum of the terms of s
RECURSIVE SumOfTerms(_)
SumOfTerms(s) ==
  LET add(a, b) == Duration(a.d + b.d, a.s + b.s, 0)
  IN IF s = <<>> THEN ZeroDuration
     ELSE IF s[1] \notin Digits THEN SumOfTerms(Tail(s))
     ELSE add(TermValue(Atoi(SubSeq(s, 1, NumLen(s))), s[NumLen(s) + 1]),
              SumOfTerms(DropN(s, NumLen(s) + 1)))

Negated(x) == Duration(-x.d, -x.s, -x.ns)

\* the sum of the terms of s with the sign of s
SignedSum(s) ==
  IF IsNegative(s) THEN Negated(SumOfTerms(Unsigned(s))) ELSE SumOfTerms(Unsigned(s))

P2W4D5H2M10S == <<"P","2","W","4","D","5","H","2","M","1","0","S">>

\* C15: P2W4D5H2M10S is 18 days, 5 hours, 2 minutes and 10 seconds, negated
\* by a leading - and unchanged by a leading +
C15_WeeksAndDays ==
  (durPC = "done" /\ Unsigned(raw) = P2W4D5H2M10S) =>
    /\ durErr = "nil"
    /\ duration = (IF IsNegative(raw)
                   THEN Duration(-18, -(5 * 3600 + 2 * 60 + 10), 0)
                   ELSE Duration(18, 5 * 3600 + 2 * 60 + 10, 0))

\* C16: for PnW, PnD, PnDT<time> and PT<time>, with or without a sign,
\* parseDuration returns no error and the signed sum of the terms; the
\* result for -s is the negated result for s and the result for +s is the
\* result for s
C16_GrammarForms ==
  (durPC = "done" /\ IsDurForm(Unsigned(raw))) =>
    /\ durErr = "nil"
    /\ duration = SignedSum(raw)
    /\ raw = Unsigned(raw) =>
         /\ parseDuration(<<"+">> \o raw) = [dur |-> duration, err |-> "nil"]
         /\ parseDuration(<<"-">> \o raw) = [dur |-> Negated(duration), err |-> "nil"]

\* s begins with one or more digits and the unit u
BeginsWithTerm(s, u) == NumLen(s) >= 1 /\ NumLen(s) < Len(s) /\ s[NumLen(s) + 1] = u

\* what follows the first term of s
AfterTerm(s) == DropN(s, NumLen(s) + 1)

\* dur-second = 1*DIGIT "S"
IsDurSecond(s) == IsTerm(s, "S")

\* dur-minute = 1*DIGIT "M" [dur-second]
IsDurMinute(s) ==
  BeginsWithTerm(s, "M") /\ (AfterTerm(s) = <<>> \/ IsDurSecond(AfterTerm(s)))

\* dur-hour = 1*DIGIT "H" [dur-minute]
IsDurHour(s) ==
  BeginsWithTerm(s, "H") /\ (AfterTerm(s) = <<>> \/ IsDurMinute(AfterTerm(s)))

\* dur-time = "T" (dur-hour / dur-minute / dur-second)
IsDurTime(s) ==
  /\ s # <<>>
  /\ s[1] = "T"
  /\ (IsDurHour(Tail(s)) \/ IsDurMinute(Tail(s)) \/ IsDurSecond(Tail(s)))

\* dur-date = dur-day [dur-time]
IsDurDate(s) ==
  BeginsWithTerm(s, "D") /\ (AfterTerm(s) = <<>> \/ IsDurTime(AfterTerm(s)))

\* dur-week = 1*DIGIT "W"
IsDurWeek(s) == IsTerm(s, "W")

\* dur-value = (["+"] / "-") "P" (dur-date / dur-time / dur-week)
IsDurValue(s) ==
  /\ Unsigned(s) # <<>>
  /\ Unsigned(s)[1] = "P"
  /\ \/ IsDurDate(Tail(Unsigned(s)))
     \/ IsDurTime(Tail(Unsigned(s)))
     \/ IsDurWeek(Tail(Unsigned(s)))

\* C38: parseDuration returns an error for every string that is not empty
\* and is no dur-value of the grammar of its doc comment: characters after
\* the W of a week duration, and time units that are repeated or out of
\* order, are rejected
C38_StrictGrammar ==
  (durPC = "done" /\ raw # <<>> /\ ~IsDurValue(raw)) => durErr # "nil"

(* ---------------------------------------------------------------------- *)
(* Claims about the fields of an event (SpecEvt)                           *)
(* ---------------------------------------------------------------------- *)
\* the value of a time-valued property does not parse under the layout
\* parseTime selects for it, or the string of a DURATION is no dur-value
Unresolvable(prop) ==
  \/ prop.Name \in {DTSTART, DTSTAMP} /\ parseTime(p, prop).err # "nil"
  \/ prop.Name = DTEND /\ parseDTEND(p, prop).err # "nil"
  \/ prop.Name = DURATION /\ prop.Value # <<>> /\ ~IsDurValue(prop.Value)

\* C32: parseEvent returns an error for every event that has a DTSTART,
\* DTEND or DTSTAMP whose value does not parse under the selected layout, or
\* a DURATION whose string is malformed
C32_FieldErrors ==
  (evtPC = "done" /\ \E i \in 1..Len(evt.Properties) : Unresolvable(evt.Properties[i])) =>
    err # "nil"

\* C37: after a successful parse of an event with neither DTSTART nor DTEND,
\* End is the zero instant, whatever the other properties are
C37_ZeroEnd ==
  (EventParsed /\ ~Has(DTSTART) /\ ~Has(DTEND)) => evt.End = ZeroTime

(* ---------------------------------------------------------------------- *)
(* lex.Text(text, opts...): the goroutine and a consumer that ranges over  *)
(* the channel (SpecText).  strict is the StrictLineBreaks option and      *)
(* ctxDone the state of the context of the Context option the caller       *)
(* passes to Text; the context is cancelled before the call or never.      *)
(* ---------------------------------------------------------------------- *)
\* the lexer of Text: Reader(strings.NewReader(text)), called without opts
Text(text, strictLB) == NewLexer(text, FALSE)

InitText ==
  /\ doc \in LexInputs
  /\ strict \in BOOLEAN
  /\ l = Text(doc, strict)
  /\ state = "lexContentLine"
  /\ pending = <<>>
  /\ items = <<>>
  /\ closed = FALSE
  /\ ctxDone \in BOOLEAN
  /\ NoEvent
  /\ NoParse
  /\ NoDuration

\* one iteration of the Reader loop with l.ctx = context.Background(), whose
\* Done channel is never ready: state = state(&l)
TextRunState ==
  LET run(s) ==
        /\ l' = [s.l EXCEPT !.out = <<>>]
        /\ pending' = s.l.out
        /\ state' = s.nxt
  IN /\ state # "nil"
     /\ ~closed
     /\ pending = <<>>
     /\ run(stateFunc(state, l))
     /\ UNCHANGED <<doc, strict, items, closed, ctxDone>>
     /\ UNCHANGED <<evtVars, parVars, rtVars, durVars>>

NextText == TextRunState \/ LexClose \/ Receive

SpecText == InitText /\ [][NextText]_vars

\* the items of Reader(strings.NewReader(text), opts...) for a consumer that
\* receives every item: one Error item for a context that is cancelled at
\* the call
ReaderWithOptions(text, strictLB, cancelled) ==
  IF cancelled THEN <<CtxErrItem>> ELSE Reader(text, strictLB)

\* the lines A: and B:y with a bare LF between them
BareLFText == <<"A", ":", lf, "B", ":", "y">>

\* C39: the items of Text(text, opts...) are the items of
\* Reader(strings.NewReader(text), opts...): with StrictLineBreaks the
\* bare LF between two content lines ends the stream in an Error item, and
\* with the Context of a cancelled context the stream is one Error item
C39_TextOptions ==
  closed =>
    /\ items = ReaderWithOptions(doc, strict, ctxDone)
    /\ (strict /\ ~ctxDone /\ doc = BareLFText) => Last(items).Type = "Error"
    /\ ctxDone => Last(items) = CtxErrItem

(* ---------------------------------------------------------------------- *)
(* parse.Slice on a property whose parameters have no, one or two values   *)
(* (SpecParams)                                                            *)
(* ---------------------------------------------------------------------- *)
\* a parameter name followed by no, one or two values
ParamGroups(name) ==
  {<<Item("ParamName", name)>> \o values :
     values \in {<<>>, <<Item("ParamValue", <<"1">>)>>,
                 <<Item("ParamValue", <<"1">>), Item("ParamValue", <<"2">>)>>}}

\* the property A with the parameter b, with or without the parameter c,
\* with or without a Value item
ParamLines ==
  {<<Item("Name", <<"A">>)>> \o g \o h \o v :
     g \in ParamGroups(<<"b">>),
     h \in {<<>>} \cup ParamGroups(<<"c">>),
     v \in {<<>>, <<Item("Value", <<"x">>)>>}}

\* the property in a calendar, in an event, and a calendar that ends in the
\* parameters of the property
ParamInputs ==
  {<<Item("CalendarBegin", beginVCalender)>> \o ln
     \o <<Item("CalendarEnd", endVCalendar)>> : ln \in ParamLines}
    \cup {<<Item("CalendarBegin", beginVCalender), Item("EventBegin", beginVEvent)>> \o ln
            \o <<Item("EventEnd", endVEvent), Item("CalendarEnd", endVCalendar)>> :
            ln \in ParamLines}
    \cup {<<Item("CalendarBegin", beginVCalender), Item("Name", <<"A">>)>> \o g :
            g \in ParamGroups(<<"b">>)}

InitParams ==
  /\ doc = <<>>
  /\ strict = FALSE
  /\ l = NewLexer(<<>>, FALSE)
  /\ state = "nil"
  /\ pending \in ParamInputs
  /\ items = <<>>
  /\ closed = TRUE
  /\ ctxDone = FALSE
  /\ NoEvent
  /\ par = Items(NewParser("nil", FALSE))
  /\ receiving = FALSE
  /\ rtPC = "idle"
  /\ first = [Items(NewParser("nil", FALSE)) EXCEPT !.at = "idle"]
  /\ encoded = <<>>
  /\ second = [Items(NewParser("nil", FALSE)) EXCEPT !.at = "idle"]
  /\ NoDuration

SpecParams == InitParams /\ [][NextParse]_vars

\* a ParamName item of toks that no ParamValue item follows
HasBareParamName(toks) ==
  \E i \in 1..Len(toks) :
    /\ toks[i].Type = "ParamName"
    /\ (i = Len(toks) \/ toks[i + 1].Type # "ParamValue")

\* the properties of the calendar and of its events
PropertiesOf(cal) ==
  Range(cal.Properties) \cup UNION {Range(cal.Events[i].Properties) : i \in 1..Len(cal.Events)}

\* C36: a ParamName item that no ParamValue item follows ends the parse with
\* an error, and no property of a parsed calendar has a parameter without
\* values
C36_ParamHasValue ==
  par.at = "done" =>
    /\ HasBareParamName(Delivered) => par.err # "nil"
    /\ par.err = "nil" =>
         \A pr \in PropertiesOf(par.p.cal) : \A n \in DOMAIN pr.Params : pr.Params[n] # <<>>

(* ---------------------------------------------------------------------- *)
(* Claims about the pushback of the parser (SpecParse)                     *)
(* ---------------------------------------------------------------------- *)
\* C40: peekCount is 0 or 1 and is 0 before the first item is received; the
\* element of buf that p.next returns is buf[0], and the second element of
\* buf is never written; the item that p.next returns again after a
\* p.backup is the item the channel delivered last, so the grammar gets the
\* items of the channel in order, none lost and none twice
C40_Pushback ==
  /\ par.p.peekCount \in {0, 1}
  /\ items = <<>> => par.p.peekCount = 0
  /\ par.p.buf[2] = NoItem
  /\ items # <<>> => par.p.buf[1] = Last(items)
  /\ par.p.peekCount > 0 => par.p.buf[par.p.peekCount] = Last(items)

\* parseParams has pushed back the Value item that ends the parameters of
\* the property A;b=1,2:x
C40_Witness ==
  /\ par.at = "parseProperty.value"
  /\ par.p.peekCount = 1
  /\ Len(items) = 6
  /\ [i \in 2..6 |-> items[i].Type] =
       [i \in 2..6 |-> <<"Name", "ParamName", "ParamValue", "ParamValue", "Value">>[i - 1]]
  /\ par.p.buf[1] = Item("Value", <<"x">>)

(* ---------------------------------------------------------------------- *)
(* The goroutines are scheduled: a goroutine that can take its next step   *)
(* takes it (FairLex: lex.Reader with a consumer that receives every item; *)
(* FairPipe: ical.Parse)                                                   *)
(* ---------------------------------------------------------------------- *)
\* the Reader loop is at its default branch: state = state(&l) is the next
\* step of the goroutine
LexReady == state # "nil" /\ pending = <<>> /\ ~closed /\ ~ctxDone

\* the call state(&l), whatever the state function is
LexRunStates ==
  \/ LexContentLine
  \/ LexNewLine
  \/ LexName
  \/ LexValue
  \/ LexParamName
  \/ LexParamValue

\* weak fairness of the call state(&l), with its enabling condition written
\* out: a loop that stays at the default branch calls the state function
FairRun == []<>(~LexReady) \/ []<><<LexRunStates>>_vars

\* the lexer goroutine runs when it is not blocked in a send
LexFair == WF_vars(LexCtxDone) /\ WF_vars(LexClose) /\ FairRun

FairLex == SpecLex /\ LexFair /\ WF_vars(Receive)

\* the number of runes that no call of lexer.next has returned yet
Unread(lx) == Len(lx.input) + Len(lx.bufferedInput) - lx.bufPos

\* lexContentLine and lexValue can return the next state function without
\* reading a rune; the state function they return then reads one or ends
Rank(lx, st) == 2 * Unread(lx) + (IF st \in {"lexContentLine", "lexValue"} THEN 1 ELSE 0)

\* a step of the lexer goroutine: no item is received and the context is
\* not cancelled
LexerStepped == items' = items /\ ctxDone' = ctxDone

\* C34 as stated: a call of a state function consumes at least one rune of
\* the input or ends the state machine
C34_EachStateConsumes ==
  [][LexerStepped => (state' = "nil" \/ Unread(l') < Unread(l))]_vars

\* C34 amended: with a consumer that receives every item the goroutine
\* returns and closes the channel, because a call of a state function ends
\* the state machine, consumes at least one rune, or is a call of
\* lexContentLine or lexValue that hands over, without consuming, to lexName
\* or lexNewLine
C34_Terminates ==
  /\ <>closed
  /\ [][LexerStepped => (state' = "nil" \/ Rank(l', state') < Rank(l, state))]_vars

\* the channel is closed after the two lines A:x and B:y were lexed; both
\* calls of lexContentLine returned lexName without consuming
C34_Witness ==
  /\ closed /\ ~ctxDone /\ pending = <<>>
  /\ doc = <<"A", ":", "x", cr, lf, "B", ":", "y">>
  /\ [i \in 1..Len(items) |-> items[i].Type] = <<"Name", "Value", "Name", "Value">>

\* p.next has an item that was pushed back and the context is not done
PopReady == Parsing /\ ~receiving /\ ~ctxDone /\ par.p.peekCount > 0

\* the goroutine that called ical.Parse runs when it is not blocked in a receive
ParserFair ==
  /\ WF_vars(ParserCtxDone) /\ WF_vars(ParserNextItem)
  /\ WF_vars(ParserReceive) /\ WF_vars(ParserEndOfItems)
  /\ ([]<>(~PopReady) \/ []<><<ParserPop>>_vars)

FairPipe == SpecPipe /\ LexFair /\ ParserFair

\* C33: after parse.Items has returned, with a Calendar or with an error,
\* the lexer goroutine ends and closes its channel: it does not stay blocked
\* in a send that nobody receives
C33_LexerTerminates == (par.at = "done") ~> closed

====
